---- MODULE Spec2Model ----
(***************************************************************************)
(* CmdLib: the command parser and builder of GLOW-Delta-2025/Utils.        *)
(*                                                                         *)
(* Two generations of CmdLib.h are modelled, each in its two builds:       *)
(*   Named : src/unnamed/part_000,  !![MSG_KIND:]COMMAND{key=value,...}##  *)
(*   Dev   : src/CmdLib.h,          !!device:type:command:{key=val,...}##  *)
(*   build : "STL" (std::string, unordered_map) or "ARDUINO" (String and a *)
(*           fixed array of CMDLIB_MAX_PARAMS entries).                    *)
(*                                                                         *)
(* A text is a sequence of one-character strings.  Every index in the      *)
(* operators below is 0-based, as in the C++ source.                       *)
(***************************************************************************)
EXTENDS Integers, Sequences, FiniteSets, TLC

VARIABLES
  lib,      \* which CmdLib.h is compiled: "Named" or "Dev"
  build,    \* "STL" or "ARDUINO"
  mode,     \* what the caller does: "parse" a given text, or "build" a Command and parse it back
  src,      \* the Command the caller builds (mode "build")
  call,     \* the caller's last call on a Command: the member, its arguments, the returned bool
  firstSet, \* the keys setParam has stored in src since its last clear(), in the order of the calls
  input,    \* parse: const string &input
  out,      \* parse: Command &out
  error,    \* parse: string &error
  ret,      \* parse: the returned bool ("none" while parse has not returned)
  pc,       \* position of the caller / of parse
  inside,   \* parse: the local `inside`
  p         \* parse: the scan index (p in part_000 STL, i elsewhere)

vars == <<lib, build, mode, src, call, firstSet, input, out, error, ret, pc, inside, p>>

(***************************************************************************)
(* Characters and texts                                                    *)
(***************************************************************************)
Min(a, b) == IF a < b THEN a ELSE b

\* <cctype> isspace in the "C" locale (TLA+ has no escape for \v)
isspace(c) == c \in {" ", "\t", "\n", "\f", "\r"}

\* s[i] / s.charAt(i)
at(s, i) == s[i + 1]

\* std::string::npos: only ever compared for equality, never used as an index
npos == -1

\* std::string::substr(pos, n): the characters pos .. min(pos+n, size)-1
substr(s, pos, n) == SubSeq(s, pos + 1, Min(pos + n, Len(s)))

\* std::string::find(c, from): the first index >= from holding c, else npos
RECURSIVE find(_, _, _)
find(s, c, from) ==
  IF from >= Len(s) THEN npos
  ELSE IF at(s, from) = c THEN from
  ELSE find(s, c, from + 1)

\* std::string::rfind(c): the last index holding c, else npos
RECURSIVE rfindFrom(_, _, _)
rfindFrom(s, c, from) ==
  IF from < 0 THEN npos
  ELSE IF at(s, from) = c THEN from
  ELSE rfindFrom(s, c, from - 1)

\* rfind taking the first index holding c
rfind_First(s, c) == find(s, c, 0)

rfind(s, c) == rfindFrom(s, c, Len(s) - 1)

\* input.rfind("!!", 0) != 0
startsWithBangs(s) == Len(s) >= 2 /\ at(s, 0) = "!" /\ at(s, 1) = "!"

\* input.substr(input.size() - 2) == "##"   (size >= 2)
endsWithHashes(s) == substr(s, Len(s) - 2, Len(s)) = <<"#", "#">>

RECURSIVE skipSpace(_, _)
skipSpace(s, a) ==
  IF a < Len(s) /\ isspace(at(s, a)) THEN skipSpace(s, a + 1) ELSE a

RECURSIVE skipSpaceBack(_, _, _)
skipSpaceBack(s, a, b) ==
  IF b > a /\ isspace(at(s, b)) THEN skipSpaceBack(s, a, b - 1) ELSE b

\* trim with the trailing loop left out
trim_KeepTrailing(s) ==
  LET a == skipSpace(s, 0) IN
  IF a = Len(s) THEN <<>> ELSE substr(s, a, Len(s) - a)

trim(s) ==
  LET a == skipSpace(s, 0) IN
  IF a = Len(s) THEN <<>>
  ELSE LET b == skipSpaceBack(s, a, Len(s) - 1) IN substr(s, a, b - a + 1)

(***************************************************************************)
(* Error messages                                                          *)
(***************************************************************************)
ErrPrefix     == "Missing prefix '!!'"
ErrSuffix     == "Missing suffix '##'"
ErrBraces     == "Malformed braces"
ErrEmptyCmd   == "Empty command"
ErrEmptyKey   == "Empty param key"
ErrPositional == "Positional params not supported; expected key=value"
ErrHeader     == "Header must be 'device:type:command'"
NoError       == ""

(***************************************************************************)
(* part_000, STL build: Command                                            *)
(***************************************************************************)
\* an unordered_map<string,string>: a function from the stored keys
EmptyMap == [k \in {} |-> <<>>]

Put(m, k, v) == [x \in (DOMAIN m) \cup {k} |-> IF x = k THEN v ELSE m[x]]

NS_Empty == [msgKind |-> <<>>, command |-> <<>>, namedParams |-> EmptyMap]

NS_clear(c) == [c EXCEPT !.msgKind = <<>>, !.command = <<>>, !.namedParams = EmptyMap]

NS_setParam(c, k, v) == [c EXCEPT !.namedParams = Put(@, k, v)]

NS_getNamed(c, k, def) ==
  IF k \in DOMAIN c.namedParams THEN c.namedParams[k] ELSE def

(***************************************************************************)
(* part_000, STL build: parse, in the blocks the actions below execute     *)
(***************************************************************************)
\* the framing checks in the other order
NS_parseFraming_SuffixFirst(in) ==
  IF Len(in) < 4 \/ ~endsWithHashes(in) THEN ErrSuffix
  ELSE IF ~startsWithBangs(in) THEN ErrPrefix
  ELSE NoError

\* lines 231-232: the error of the framing checks, NoError when both pass
NS_parseFraming(in) ==
  IF ~startsWithBangs(in) THEN ErrPrefix
  ELSE IF Len(in) < 4 \/ ~endsWithHashes(in) THEN ErrSuffix
  ELSE NoError

\* the header code with the braces made mandatory (as CmdLib.h has them)
NS_parseHeader_BracesRequired(in, o) ==
  LET braceOpen  == find(in, "{", 0)
      braceClose == rfind(in, "}")
      headerEnd  == IF braceOpen # npos THEN braceOpen ELSE Len(in) - 2
      header0    == substr(in, 2, headerEnd - 2)
      header     == IF header0 # <<>> /\ header0[Len(header0)] = ":"
                    THEN SubSeq(header0, 1, Len(header0) - 1) ELSE header0
      lastColon  == rfind(header, ":")
      o1 == IF lastColon = npos
            THEN [o EXCEPT !.msgKind = <<>>, !.command = trim(header)]
            ELSE [o EXCEPT !.msgKind = trim(substr(header, 0, lastColon)),
                           !.command = trim(substr(header, lastColon + 1, Len(header)))]
  IN
  IF o1.command = <<>>
  THEN [out |-> o1, error |-> ErrEmptyCmd, braces |-> FALSE, inside |-> <<>>]
  ELSE IF braceOpen = npos \/ braceClose = npos \/ braceClose < braceOpen
  THEN [out |-> o1, error |-> ErrBraces, braces |-> FALSE, inside |-> <<>>]
  ELSE [out |-> o1, error |-> NoError, braces |-> TRUE,
        inside |-> substr(in, braceOpen + 1, braceClose - (braceOpen + 1))]

\* lines 234-255: locate the braces, resolve the header, check the braces.
\* Yields the Command, the error (NoError: none), whether braces are present
\* and the brace content.
NS_parseHeader(in, o) ==
  LET braceOpen  == find(in, "{", 0)
      braceClose == rfind(in, "}")
      headerEnd  == IF braceOpen # npos THEN braceOpen ELSE Len(in) - 2
      header0    == substr(in, 2, headerEnd - 2)
      header     == IF header0 # <<>> /\ header0[Len(header0)] = ":"
                    THEN SubSeq(header0, 1, Len(header0) - 1) ELSE header0
      lastColon  == rfind(header, ":")
      o1 == IF lastColon = npos
            THEN [o EXCEPT !.msgKind = <<>>, !.command = trim(header)]
            ELSE [o EXCEPT !.msgKind = trim(substr(header, 0, lastColon)),
                           !.command = trim(substr(header, lastColon + 1, Len(header)))]
  IN
  IF o1.command = <<>>
  THEN [out |-> o1, error |-> ErrEmptyCmd, braces |-> FALSE, inside |-> <<>>]
  ELSE IF braceOpen # npos
  THEN IF braceClose = npos \/ braceClose < braceOpen
       THEN [out |-> o1, error |-> ErrBraces, braces |-> FALSE, inside |-> <<>>]
       ELSE [out |-> o1, error |-> NoError, braces |-> TRUE,
             inside |-> substr(in, braceOpen + 1, braceClose - (braceOpen + 1))]
  ELSE [out |-> o1, error |-> NoError, braces |-> FALSE, inside |-> <<>>]

\* line 261: while (p < inside.size() && inside[p] != '=' && inside[p] != ',') ++p;
RECURSIVE scanKey(_, _)
scanKey(s, i) ==
  IF i < Len(s) /\ at(s, i) # "=" /\ at(s, i) # "," THEN scanKey(s, i + 1) ELSE i

\* the value scan ending at a further '=' as well
scanValue_StopsAtEq(s, i) == scanKey(s, i)

\* line 275: while (p < inside.size() && inside[p] != ',') ++p;
RECURSIVE scanValue(_, _)
scanValue(s, i) ==
  IF i < Len(s) /\ at(s, i) # "," THEN scanValue(s, i + 1) ELSE i

\* the skip of the ',' left out
skipComma_Stays(s, i) == i

\* `if (p < inside.size() && inside[p] == ',') ++p;`
skipComma(s, i) == IF i < Len(s) /\ at(s, i) = "," THEN i + 1 ELSE i

\* the loop iteration without the `if (key.empty())` check of line 277
NS_paramStep_KeepsEmptyKey(ins, p0, o) ==
  LET p1 == skipSpace(ins, p0) IN
  IF p1 >= Len(ins) THEN [p |-> p1, out |-> o, error |-> NoError]
  ELSE
  LET startKey == p1
      p2 == scanKey(ins, p1)
  IN
  IF p2 >= Len(ins) \/ at(ins, p2) = ","
  THEN LET token == trim(substr(ins, startKey, p2 - startKey)) IN
       IF token # <<>>
       THEN [p |-> p2, out |-> o, error |-> ErrPositional]
       ELSE [p |-> skipComma(ins, p2), out |-> o, error |-> NoError]
  ELSE
  LET key      == trim(substr(ins, startKey, p2 - startKey))
      startVal == p2 + 1
      p4       == scanValue(ins, startVal)
      val      == trim(substr(ins, startVal, p4 - startVal))
  IN [p |-> skipComma(ins, p4), out |-> NS_setParam(o, key, val), error |-> NoError]

\* lines 258-279: one iteration of the parameter loop, entered with p0 < size.
\* Yields the new index, the Command and the error (NoError: the loop goes on;
\* a `break` leaves p at inside.size(), which ends the loop).
NS_paramStep(ins, p0, o) ==
  LET p1 == skipSpace(ins, p0) IN
  IF p1 >= Len(ins) THEN [p |-> p1, out |-> o, error |-> NoError]
  ELSE
  LET startKey == p1
      p2 == scanKey(ins, p1)
  IN
  IF p2 >= Len(ins) \/ at(ins, p2) = ","
  THEN LET token == trim(substr(ins, startKey, p2 - startKey)) IN
       IF token # <<>>
       THEN [p |-> p2, out |-> o, error |-> ErrPositional]
       ELSE [p |-> skipComma(ins, p2), out |-> o, error |-> NoError]
  ELSE
  LET key      == trim(substr(ins, startKey, p2 - startKey))
      startVal == p2 + 1
      p4       == scanValue(ins, startVal)
      val      == trim(substr(ins, startVal, p4 - startVal))
  IN
  IF key = <<>>
  THEN [p |-> p4, out |-> o, error |-> ErrEmptyKey]
  ELSE [p |-> skipComma(ins, p4), out |-> NS_setParam(o, key, val), error |-> NoError]

(***************************************************************************)
(* Arduino build: the String operations the code calls (WString.h)         *)
(***************************************************************************)
\* String::length
length(s) == Len(s)

\* String::charAt(i)
charAt(s, i) == s[i + 1]

\* String::substring(left, right): [left, right), the ends swapped when
\* left > right, right clamped to the length, "" when left is past the end
substring(s, left, right) ==
  LET l == IF left > right THEN right ELSE left
      r == IF left > right THEN left ELSE right
  IN IF l >= Len(s) THEN <<>> ELSE SubSeq(s, l + 1, Min(r, Len(s)))

\* String::startsWith(t)
startsWith(s, t) == Len(s) >= Len(t) /\ SubSeq(s, 1, Len(t)) = t

\* String::endsWith(t)
endsWith(s, t) == Len(s) >= Len(t) /\ SubSeq(s, Len(s) - Len(t) + 1, Len(s)) = t

\* String::indexOf(ch, from): -1 when absent
RECURSIVE indexOf(_, _, _)
indexOf(s, c, from) ==
  IF from >= Len(s) THEN -1
  ELSE IF charAt(s, from) = c THEN from
  ELSE indexOf(s, c, from + 1)

\* String::lastIndexOf(ch): -1 when absent
RECURSIVE lastIndexFrom(_, _, _)
lastIndexFrom(s, c, from) ==
  IF from < 0 THEN -1
  ELSE IF charAt(s, from) = c THEN from
  ELSE lastIndexFrom(s, c, from - 1)

lastIndexOf(s, c) == lastIndexFrom(s, c, Len(s) - 1)

\* String::lastIndexOf("##"): the last index where "##" starts, -1 when absent
RECURSIVE lastHashesFrom(_, _)
lastHashesFrom(s, from) ==
  IF from < 0 THEN -1
  ELSE IF SubSeq(s, from + 1, from + 2) = <<"#", "#">> THEN from
  ELSE lastHashesFrom(s, from - 1)

lastIndexOfHashes(s) == lastHashesFrom(s, Len(s) - 2)

RECURSIVE skipSpaceBackA(_, _, _)
skipSpaceBackA(s, a, b) ==
  IF b >= a /\ isspace(charAt(s, b)) THEN skipSpaceBackA(s, a, b - 1) ELSE b

trimStr(s) ==
  LET a == skipSpace(s, 0)
      b == skipSpaceBackA(s, a, length(s) - 1)
  IN IF b < a THEN <<>> ELSE substring(s, a, b + 1)

(***************************************************************************)
(* part_000, Arduino build: Command                                        *)
(***************************************************************************)
\* the configured array size (the header's default is 12; it is a macro the
\* build may set before including the header)
CMDLIB_MAX_PARAMS == 2

EmptyParam == [key |-> <<>>, value |-> <<>>]

EmptyArray == [i \in 1..CMDLIB_MAX_PARAMS |-> EmptyParam]

\* index (0-based) of the first of the n used entries of array a holding key k, else -1
RECURSIVE findKey(_, _, _, _)
findKey(a, n, k, i) ==
  IF i >= n THEN -1
  ELSE IF a[i + 1].key = k THEN i
  ELSE findKey(a, n, k, i + 1)

NA_Empty == [msgKind |-> <<>>, command |-> <<>>, namedParams |-> EmptyArray, namedCount |-> 0]

NA_clear(c) ==
  [c EXCEPT !.msgKind = <<>>, !.command = <<>>, !.namedCount = 0, !.namedParams = EmptyArray]

\* setParam without the search for the key: every call appends
NA_setParam_AlwaysAppends(c, k, v) ==
  IF c.namedCount >= CMDLIB_MAX_PARAMS
  THEN [cmd |-> c, ok |-> FALSE]
  ELSE [cmd |-> [c EXCEPT !.namedParams[c.namedCount + 1] = [key |-> k, value |-> v],
                          !.namedCount = c.namedCount + 1],
        ok |-> TRUE]

\* setParam: the Command after the call and the returned bool
NA_setParam(c, k, v) ==
  LET i == findKey(c.namedParams, c.namedCount, k, 0) IN
  IF i # -1
  THEN [cmd |-> [c EXCEPT !.namedParams[i + 1].value = v], ok |-> TRUE]
  ELSE IF c.namedCount >= CMDLIB_MAX_PARAMS
  THEN [cmd |-> c, ok |-> FALSE]
  ELSE [cmd |-> [c EXCEPT !.namedParams[c.namedCount + 1] = [key |-> k, value |-> v],
                          !.namedCount = c.namedCount + 1],
        ok |-> TRUE]

NA_getNamed(c, k, def) ==
  LET i == findKey(c.namedParams, c.namedCount, k, 0) IN
  IF i # -1 THEN c.namedParams[i + 1].value ELSE def

(***************************************************************************)
(* part_000, Arduino build: parse                                          *)
(***************************************************************************)
ErrMalformedHeader == "Malformed header"

\* lines 112-113
NA_parseFraming(in) ==
  IF ~startsWith(in, <<"!", "!">>) THEN ErrPrefix
  ELSE IF ~endsWith(in, <<"#", "#">>) THEN ErrSuffix
  ELSE NoError

\* the header code without the removal of the trailing ':'
NA_parseHeader_KeepsColon(in, o) ==
  LET braceOpen  == indexOf(in, "{", 0)
      braceClose == lastIndexOf(in, "}")
      headerEnd  == IF braceOpen # -1 THEN braceOpen ELSE lastIndexOfHashes(in)
      header     == substring(in, 2, headerEnd)
      lastColon  == lastIndexOf(header, ":")
      o1 == IF lastColon = -1
            THEN [o EXCEPT !.msgKind = <<>>, !.command = trimStr(header)]
            ELSE [o EXCEPT !.msgKind = trimStr(substring(header, 0, lastColon)),
                           !.command = trimStr(substring(header, lastColon + 1, length(header)))]
  IN
  IF headerEnd = -1
  THEN [out |-> o, error |-> ErrMalformedHeader, braces |-> FALSE, inside |-> <<>>]
  ELSE IF length(o1.command) = 0
  THEN [out |-> o1, error |-> ErrEmptyCmd, braces |-> FALSE, inside |-> <<>>]
  ELSE IF braceOpen # -1
  THEN IF braceClose = -1 \/ braceClose < braceOpen
       THEN [out |-> o1, error |-> ErrBraces, braces |-> FALSE, inside |-> <<>>]
       ELSE [out |-> o1, error |-> NoError, braces |-> TRUE,
             inside |-> substring(in, braceOpen + 1, braceClose)]
  ELSE [out |-> o1, error |-> NoError, braces |-> FALSE, inside |-> <<>>]

\* lines 115-138
NA_parseHeader(in, o) ==
  LET braceOpen  == indexOf(in, "{", 0)
      braceClose == lastIndexOf(in, "}")
      headerEnd  == IF braceOpen # -1 THEN braceOpen ELSE lastIndexOfHashes(in)
      header0    == substring(in, 2, headerEnd)
      header     == IF endsWith(header0, <<":">>)
                    THEN substring(header0, 0, length(header0) - 1) ELSE header0
      lastColon  == lastIndexOf(header, ":")
      o1 == IF lastColon = -1
            THEN [o EXCEPT !.msgKind = <<>>, !.command = trimStr(header)]
            ELSE [o EXCEPT !.msgKind = trimStr(substring(header, 0, lastColon)),
                           !.command = trimStr(substring(header, lastColon + 1, length(header)))]
  IN
  IF headerEnd = -1
  THEN [out |-> o, error |-> ErrMalformedHeader, braces |-> FALSE, inside |-> <<>>]
  ELSE IF length(o1.command) = 0
  THEN [out |-> o1, error |-> ErrEmptyCmd, braces |-> FALSE, inside |-> <<>>]
  ELSE IF braceOpen # -1
  THEN IF braceClose = -1 \/ braceClose < braceOpen
       THEN [out |-> o1, error |-> ErrBraces, braces |-> FALSE, inside |-> <<>>]
       ELSE [out |-> o1, error |-> NoError, braces |-> TRUE,
             inside |-> substring(in, braceOpen + 1, braceClose)]
  ELSE [out |-> o1, error |-> NoError, braces |-> FALSE, inside |-> <<>>]

\* the loop iteration storing a token without '=' as a flag (as CmdLib.h does)
NA_paramStep_FlagsAccepted(ins, i0, o) ==
  LET i1 == skipSpace(ins, i0) IN
  IF i1 >= length(ins) THEN [p |-> i1, out |-> o, error |-> NoError]
  ELSE
  LET startKey == i1
      i2 == scanKey(ins, i1)
  IN
  IF i2 >= length(ins) \/ charAt(ins, i2) = ","
  THEN LET token == trimStr(substring(ins, startKey, i2)) IN
       [p |-> skipComma(ins, i2),
        out |-> IF length(token) > 0 THEN NA_setParam(o, token, <<>>).cmd ELSE o,
        error |-> NoError]
  ELSE
  LET key      == trimStr(substring(ins, startKey, i2))
      startVal == i2 + 1
      i4       == scanValue(ins, startVal)
      val      == trimStr(substring(ins, startVal, i4))
  IN
  IF length(key) = 0
  THEN [p |-> i4, out |-> o, error |-> ErrEmptyKey]
  ELSE [p |-> skipComma(ins, i4), out |-> NA_setParam(o, key, val).cmd, error |-> NoError]

ErrTooMany == "Too many params"

\* the loop iteration failing when setParam returns false
NA_paramStep_FailsWhenFull(ins, i0, o) ==
  LET i1 == skipSpace(ins, i0) IN
  IF i1 >= length(ins) THEN [p |-> i1, out |-> o, error |-> NoError]
  ELSE
  LET startKey == i1
      i2 == scanKey(ins, i1)
  IN
  IF i2 >= length(ins) \/ charAt(ins, i2) = ","
  THEN LET token == trimStr(substring(ins, startKey, i2)) IN
       IF length(token) > 0
       THEN [p |-> i2, out |-> o, error |-> ErrPositional]
       ELSE [p |-> skipComma(ins, i2), out |-> o, error |-> NoError]
  ELSE
  LET key      == trimStr(substring(ins, startKey, i2))
      startVal == i2 + 1
      i4       == scanValue(ins, startVal)
      val      == trimStr(substring(ins, startVal, i4))
  IN
  IF length(key) = 0
  THEN [p |-> i4, out |-> o, error |-> ErrEmptyKey]
  ELSE IF ~NA_setParam(o, key, val).ok
  THEN [p |-> i4, out |-> o, error |-> ErrTooMany]
  ELSE [p |-> skipComma(ins, i4), out |-> NA_setParam(o, key, val).cmd, error |-> NoError]

\* lines 142-165: one iteration of the parameter loop
NA_paramStep(ins, i0, o) ==
  LET i1 == skipSpace(ins, i0) IN
  IF i1 >= length(ins) THEN [p |-> i1, out |-> o, error |-> NoError]
  ELSE
  LET startKey == i1
      i2 == scanKey(ins, i1)
  IN
  IF i2 >= length(ins) \/ charAt(ins, i2) = ","
  THEN LET token == trimStr(substring(ins, startKey, i2)) IN
       IF length(token) > 0
       THEN [p |-> i2, out |-> o, error |-> ErrPositional]
       ELSE [p |-> skipComma(ins, i2), out |-> o, error |-> NoError]
  ELSE
  LET key      == trimStr(substring(ins, startKey, i2))
      startVal == i2 + 1
      i4       == scanValue(ins, startVal)
      val      == trimStr(substring(ins, startVal, i4))
  IN
  IF length(key) = 0
  THEN [p |-> i4, out |-> o, error |-> ErrEmptyKey]
  ELSE [p |-> skipComma(ins, i4), out |-> NA_setParam(o, key, val).cmd, error |-> NoError]

(***************************************************************************)
(* CmdLib.h, STL build: Command and parse                                  *)
(***************************************************************************)
DS_Empty == [device |-> <<>>, type |-> <<>>, command |-> <<>>, params |-> EmptyMap]

DS_clear(c) ==
  [c EXCEPT !.device = <<>>, !.type = <<>>, !.command = <<>>, !.params = EmptyMap]

DS_setParam(c, k, v) == [c EXCEPT !.params = Put(@, k, v)]

DS_getParam(c, k, def) == IF k \in DOMAIN c.params THEN c.params[k] ELSE def

\* lines 216-217
DS_parseFraming(in) ==
  IF ~startsWithBangs(in) THEN ErrPrefix
  ELSE IF Len(in) < 4 \/ ~endsWithHashes(in) THEN ErrSuffix
  ELSE NoError

\* the header check made before the brace check (the order part_000 has)
DS_parseHeader_HeaderFirst(in, o) ==
  LET braceOpen  == find(in, "{", 0)
      braceClose == rfind(in, "}")
      headerEnd  == IF braceOpen # npos THEN braceOpen ELSE Len(in) - 2
      header0    == substr(in, 2, headerEnd - 2)
      header     == IF header0 # <<>> /\ header0[Len(header0)] = ":"
                    THEN SubSeq(header0, 1, Len(header0) - 1) ELSE header0
      p1 == find(header, ":", 0)
      p2 == IF p1 = npos THEN npos ELSE find(header, ":", p1 + 1)
  IN
  IF p1 = npos \/ p2 = npos
  THEN [out |-> o, error |-> ErrHeader, inside |-> <<>>]
  ELSE IF braceOpen = npos \/ braceClose = npos \/ braceClose < braceOpen
  THEN [out |-> o, error |-> ErrBraces, inside |-> <<>>]
  ELSE [out |-> [o EXCEPT !.device  = trim(substr(header, 0, p1)),
                          !.type    = trim(substr(header, p1 + 1, p2 - (p1 + 1))),
                          !.command = trim(substr(header, p2 + 1, Len(header)))],
        error |-> NoError,
        inside |-> substr(in, braceOpen + 1, braceClose - (braceOpen + 1))]

\* lines 219-239: the brace check, then the three-part header
DS_parseHeader(in, o) ==
  LET braceOpen  == find(in, "{", 0)
      braceClose == rfind(in, "}")
      header0    == substr(in, 2, braceOpen - 2)
      header     == IF header0 # <<>> /\ header0[Len(header0)] = ":"
                    THEN SubSeq(header0, 1, Len(header0) - 1) ELSE header0
      p1 == find(header, ":", 0)
      p2 == IF p1 = npos THEN npos ELSE find(header, ":", p1 + 1)
  IN
  IF braceOpen = npos \/ braceClose = npos \/ braceClose < braceOpen
  THEN [out |-> o, error |-> ErrBraces, inside |-> <<>>]
  ELSE IF p1 = npos \/ p2 = npos
  THEN [out |-> o, error |-> ErrHeader, inside |-> <<>>]
  ELSE [out |-> [o EXCEPT !.device  = trim(substr(header, 0, p1)),
                          !.type    = trim(substr(header, p1 + 1, p2 - (p1 + 1))),
                          !.command = trim(substr(header, p2 + 1, Len(header)))],
        error |-> NoError,
        inside |-> substr(in, braceOpen + 1, braceClose - (braceOpen + 1))]

IsQuote(c) == c = "\"" \/ c = "'"

\* line 260: while (i < n && inside[i] != q) ++i;
RECURSIVE scanQuoted(_, _, _)
scanQuoted(s, i, q) ==
  IF i < Len(s) /\ at(s, i) # q THEN scanQuoted(s, i + 1, q) ELSE i

\* the loop iteration trimming a quoted value as it trims an unquoted one
DS_paramStep_TrimsQuoted(ins, i0, o) ==
  LET n  == Len(ins)
      i1 == skipSpace(ins, i0)
  IN
  IF i1 >= n THEN [p |-> i1, out |-> o, error |-> NoError]
  ELSE
  LET startKey == i1
      i2 == scanKey(ins, i1)
  IN
  IF i2 >= n \/ at(ins, i2) = ","
  THEN LET k == trim(substr(ins, startKey, i2 - startKey)) IN
       [p |-> skipComma(ins, i2),
        out |-> IF k # <<>> THEN DS_setParam(o, k, <<>>) ELSE o,
        error |-> NoError]
  ELSE
  LET key == trim(substr(ins, startKey, i2 - startKey))
      i3  == i2 + 1
  IN
  IF i3 < n /\ IsQuote(at(ins, i3))
  THEN LET q        == at(ins, i3)
           startVal == i3 + 1
           i4       == scanQuoted(ins, startVal, q)
           value    == trim(substr(ins, startVal, i4 - startVal))
           i5       == IF i4 < n /\ at(ins, i4) = q THEN i4 + 1 ELSE i4
       IN [p |-> skipComma(ins, i5), out |-> DS_setParam(o, key, value), error |-> NoError]
  ELSE LET startVal == i3
           i4       == scanValue(ins, startVal)
           value    == trim(substr(ins, startVal, i4 - startVal))
       IN [p |-> skipComma(ins, i4), out |-> DS_setParam(o, key, value), error |-> NoError]

\* the loop iteration skipping a token without '=' instead of storing it
DS_paramStep_DropsFlags(ins, i0, o) ==
  LET n  == Len(ins)
      i1 == skipSpace(ins, i0)
  IN
  IF i1 >= n THEN [p |-> i1, out |-> o, error |-> NoError]
  ELSE
  LET startKey == i1
      i2 == scanKey(ins, i1)
  IN
  IF i2 >= n \/ at(ins, i2) = ","
  THEN [p |-> skipComma(ins, i2), out |-> o, error |-> NoError]
  ELSE
  LET key == trim(substr(ins, startKey, i2 - startKey))
      i3  == i2 + 1
  IN
  IF i3 < n /\ IsQuote(at(ins, i3))
  THEN LET q        == at(ins, i3)
           startVal == i3 + 1
           i4       == scanQuoted(ins, startVal, q)
           value    == substr(ins, startVal, i4 - startVal)
           i5       == IF i4 < n /\ at(ins, i4) = q THEN i4 + 1 ELSE i4
       IN [p |-> skipComma(ins, i5), out |-> DS_setParam(o, key, value), error |-> NoError]
  ELSE LET startVal == i3
           i4       == scanValue(ins, startVal)
           value    == trim(substr(ins, startVal, i4 - startVal))
       IN [p |-> skipComma(ins, i4), out |-> DS_setParam(o, key, value), error |-> NoError]

\* lines 242-269: one iteration of the parameter loop
DS_paramStep(ins, i0, o) ==
  LET n  == Len(ins)
      i1 == skipSpace(ins, i0)
  IN
  IF i1 >= n THEN [p |-> i1, out |-> o, error |-> NoError]
  ELSE
  LET startKey == i1
      i2 == scanKey(ins, i1)
  IN
  IF i2 >= n \/ at(ins, i2) = ","
  THEN LET k == trim(substr(ins, startKey, i2 - startKey)) IN
       [p |-> skipComma(ins, i2),
        out |-> IF k # <<>> THEN DS_setParam(o, k, <<>>) ELSE o,
        error |-> NoError]
  ELSE
  LET key == trim(substr(ins, startKey, i2 - startKey))
      i3  == i2 + 1
  IN
  IF i3 < n /\ IsQuote(at(ins, i3))
  THEN LET q        == at(ins, i3)
           startVal == i3 + 1
           i4       == scanQuoted(ins, startVal, q)
           value    == substr(ins, startVal, i4 - startVal)
           i5       == IF i4 < n /\ at(ins, i4) = q THEN i4 + 1 ELSE i4
       IN [p |-> skipComma(ins, i5), out |-> DS_setParam(o, key, value), error |-> NoError]
  ELSE LET startVal == i3
           i4       == scanValue(ins, startVal)
           value    == trim(substr(ins, startVal, i4 - startVal))
       IN [p |-> skipComma(ins, i4), out |-> DS_setParam(o, key, value), error |-> NoError]

(***************************************************************************)
(* CmdLib.h, Arduino build: Command and parse                              *)
(***************************************************************************)
DA_Empty ==
  [device |-> <<>>, type |-> <<>>, command |-> <<>>, params |-> EmptyArray, paramCount |-> 0]

\* clear without `paramCount = 0`
DA_clear_KeepsCount(c) ==
  [c EXCEPT !.device = <<>>, !.type = <<>>, !.command = <<>>,
            !.params = [i \in 1..CMDLIB_MAX_PARAMS |->
                          IF i <= c.paramCount THEN EmptyParam ELSE c.params[i]]]

\* clears the paramCount used entries; the others are never written
DA_clear(c) ==
  [c EXCEPT !.device = <<>>, !.type = <<>>, !.command = <<>>,
            !.params = [i \in 1..CMDLIB_MAX_PARAMS |->
                          IF i <= c.paramCount THEN EmptyParam ELSE c.params[i]],
            !.paramCount = 0]

\* setParam with the capacity check ahead of the search for the key
DA_setParam_CapFirst(c, k, v) ==
  LET i == findKey(c.params, c.paramCount, k, 0) IN
  IF c.paramCount >= CMDLIB_MAX_PARAMS
  THEN [cmd |-> c, ok |-> FALSE]
  ELSE IF i # -1
  THEN [cmd |-> [c EXCEPT !.params[i + 1].value = v], ok |-> TRUE]
  ELSE [cmd |-> [c EXCEPT !.params[c.paramCount + 1] = [key |-> k, value |-> v],
                          !.paramCount = c.paramCount + 1],
        ok |-> TRUE]

\* lines 59-69
DA_setParam(c, k, v) ==
  LET i == findKey(c.params, c.paramCount, k, 0) IN
  IF i # -1
  THEN [cmd |-> [c EXCEPT !.params[i + 1].value = v], ok |-> TRUE]
  ELSE IF c.paramCount >= CMDLIB_MAX_PARAMS
  THEN [cmd |-> c, ok |-> FALSE]
  ELSE [cmd |-> [c EXCEPT !.params[c.paramCount + 1] = [key |-> k, value |-> v],
                          !.paramCount = c.paramCount + 1],
        ok |-> TRUE]

DA_getParam(c, k, def) ==
  LET i == findKey(c.params, c.paramCount, k, 0) IN
  IF i # -1 THEN c.params[i + 1].value ELSE def

\* lines 103-104
DA_parseFraming(in) ==
  IF ~startsWith(in, <<"!", "!">>) THEN ErrPrefix
  ELSE IF ~endsWith(in, <<"#", "#">>) THEN ErrSuffix
  ELSE NoError

\* lines 106-126
DA_parseHeader(in, o) ==
  LET braceOpen  == indexOf(in, "{", 0)
      braceClose == lastIndexOf(in, "}")
      header0    == substring(in, 2, braceOpen)
      header     == IF endsWith(header0, <<":">>)
                    THEN substring(header0, 0, length(header0) - 1) ELSE header0
      p1 == indexOf(header, ":", 0)
      p2 == indexOf(header, ":", p1 + 1)
  IN
  IF braceOpen = -1 \/ braceClose = -1 \/ braceClose < braceOpen
  THEN [out |-> o, error |-> ErrBraces, inside |-> <<>>]
  ELSE IF p1 = -1 \/ p2 = -1
  THEN [out |-> o, error |-> ErrHeader, inside |-> <<>>]
  ELSE [out |-> [o EXCEPT !.device  = trimStr(substring(header, 0, p1)),
                          !.type    = trimStr(substring(header, p1 + 1, p2)),
                          !.command = trimStr(substring(header, p2 + 1, length(header)))],
        error |-> NoError,
        inside |-> substring(in, braceOpen + 1, braceClose)]

\* lines 131-159: one iteration of the parameter loop
DA_paramStep(ins, i0, o) ==
  LET n  == length(ins)
      i1 == skipSpace(ins, i0)
  IN
  IF i1 >= n THEN [p |-> i1, out |-> o, error |-> NoError]
  ELSE
  LET startKey == i1
      i2 == scanKey(ins, i1)
  IN
  IF i2 >= n \/ charAt(ins, i2) = ","
  THEN LET k == trimStr(substring(ins, startKey, i2)) IN
       [p |-> skipComma(ins, i2),
        out |-> IF length(k) > 0 THEN DA_setParam(o, k, <<>>).cmd ELSE o,
        error |-> NoError]
  ELSE
  LET key == trimStr(substring(ins, startKey, i2))
      i3  == i2 + 1
  IN
  IF i3 < n /\ IsQuote(charAt(ins, i3))
  THEN LET q        == charAt(ins, i3)
           startVal == i3 + 1
           i4       == scanQuoted(ins, startVal, q)
           value    == substring(ins, startVal, i4)
           i5       == IF i4 < n /\ charAt(ins, i4) = q THEN i4 + 1 ELSE i4
       IN [p |-> skipComma(ins, i5), out |-> DA_setParam(o, key, value).cmd, error |-> NoError]
  ELSE LET startVal == i3
           i4       == scanValue(ins, startVal)
           value    == trimStr(substring(ins, startVal, i4))
       IN [p |-> skipComma(ins, i4), out |-> DA_setParam(o, key, value).cmd, error |-> NoError]

(***************************************************************************)
(* part_000: Command::toString                                             *)
(***************************************************************************)
RECURSIVE JoinParams_NoComma(_)
\* the tokens written without the separating ","
JoinParams_NoComma(es) ==
  IF es = <<>> THEN <<>>
  ELSE es[1].key \o <<"=">> \o es[1].value \o JoinParams_NoComma(Tail(es))

RECURSIVE JoinParams(_)
\* the key=value tokens of a sequence of entries, joined by ","
JoinParams(es) ==
  IF es = <<>> THEN <<>>
  ELSE es[1].key \o <<"=">> \o es[1].value
       \o (IF Len(es) > 1 THEN <<",">> \o JoinParams(Tail(es)) ELSE <<>>)

\* toString writing the braces also when no parameter is stored (as the
\* CmdLib.h toString does)
NA_toString_AlwaysBraces(c) ==
  <<"!", "!">>
  \o (IF length(c.msgKind) > 0 THEN c.msgKind \o <<":">> ELSE <<>>)
  \o c.command
  \o <<"{">> \o JoinParams(SubSeq(c.namedParams, 1, c.namedCount)) \o <<"}">>
  \o <<"#", "#">>

\* Arduino, lines 77-94: the namedCount used entries, in array order
NA_toString(c) ==
  <<"!", "!">>
  \o (IF length(c.msgKind) > 0 THEN c.msgKind \o <<":">> ELSE <<>>)
  \o c.command
  \o (IF c.namedCount > 0
      THEN <<"{">> \o JoinParams(SubSeq(c.namedParams, 1, c.namedCount)) \o <<"}">>
      ELSE <<>>)
  \o <<"#", "#">>

\* the orders in which an unordered_map with the keys of m may be iterated
IterationOrders(m) ==
  {o \in [1..Cardinality(DOMAIN m) -> DOMAIN m] :
     \A i, j \in DOMAIN o : i # j => o[i] # o[j]}

\* STL, lines 198-215: `order` is the iteration order of the unordered_map
NS_toString(c, order) ==
  <<"!", "!">>
  \o (IF c.msgKind # <<>> THEN c.msgKind \o <<":">> ELSE <<>>)
  \o c.command
  \o (IF DOMAIN c.namedParams # {}
      THEN <<"{">>
           \o JoinParams([i \in DOMAIN order |->
                            [key |-> order[i], value |-> c.namedParams[order[i]]]])
           \o <<"}">>
      ELSE <<>>)
  \o <<"#", "#">>

(***************************************************************************)
(* CmdLib.h: Command::toString (the header and the braces always written)  *)
(***************************************************************************)
\* Arduino, lines 76-85: the paramCount used entries, in array order
DA_toString(c) ==
  <<"!", "!">>
  \o c.device \o <<":">> \o c.type \o <<":">> \o c.command \o <<":", "{">>
  \o JoinParams(SubSeq(c.params, 1, c.paramCount))
  \o <<"}", "#", "#">>

\* STL, lines 187-198: `order` is the iteration order of the unordered_map
DS_toString(c, order) ==
  <<"!", "!">>
  \o c.device \o <<":">> \o c.type \o <<":">> \o c.command \o <<":", "{">>
  \o JoinParams([i \in DOMAIN order |-> [key |-> order[i], value |-> c.params[order[i]]]])
  \o <<"}", "#", "#">>

(***************************************************************************)
(* The four Commands behind one name each                                  *)
(***************************************************************************)
\* Command::clear
Clear(l, b, c) ==
  IF l = "Named" THEN (IF b = "STL" THEN NS_clear(c) ELSE NA_clear(c))
  ELSE (IF b = "STL" THEN DS_clear(c) ELSE DA_clear(c))

\* Command::setParam: the Command after the call and the returned bool (the
\* STL setParam returns nothing: ok is TRUE)
SetParam(l, b, c, k, v) ==
  IF l = "Named"
  THEN (IF b = "STL" THEN [cmd |-> NS_setParam(c, k, v), ok |-> TRUE] ELSE NA_setParam(c, k, v))
  ELSE (IF b = "STL" THEN [cmd |-> DS_setParam(c, k, v), ok |-> TRUE] ELSE DA_setParam(c, k, v))

\* Command::getNamed / Command::getParam
GetParam(l, b, c, k, def) ==
  IF l = "Named" THEN (IF b = "STL" THEN NS_getNamed(c, k, def) ELSE NA_getNamed(c, k, def))
  ELSE (IF b = "STL" THEN DS_getParam(c, k, def) ELSE DA_getParam(c, k, def))

\* Command::toString: the texts it may return (one per iteration order of
\* the unordered_map in the STL build, one in the Arduino build)
ToStrings(l, b, c) ==
  IF l = "Named"
  THEN (IF b = "STL" THEN {NS_toString(c, o) : o \in IterationOrders(c.namedParams)}
        ELSE {NA_toString(c)})
  ELSE (IF b = "STL" THEN {DS_toString(c, o) : o \in IterationOrders(c.params)}
        ELSE {DA_toString(c)})

\* the number of stored parameters
ParamCount(l, b, c) ==
  IF l = "Named"
  THEN (IF b = "STL" THEN Cardinality(DOMAIN c.namedParams) ELSE c.namedCount)
  ELSE (IF b = "STL" THEN Cardinality(DOMAIN c.params) ELSE c.paramCount)

(***************************************************************************)
(* The substrings parse takes: <<from, to>>, the 0-based index of the first *)
(* character and the index after the last (substr(pos, n): <<pos, pos + n>>; *)
(* substring(left, right): <<left, right>>)                                *)
(***************************************************************************)
\* the framing checks: input.substr(input.size() - 2), reached in the STL
\* builds when the prefix is there and size >= 4 (endsWith takes none)
FramingSubstrings(b, in) ==
  IF b = "STL" /\ startsWithBangs(in) /\ Len(in) >= 4
  THEN {<<Len(in) - 2, Len(in)>>} ELSE {}

\* the header and the brace content, of a text that passed the framing checks
HeaderSubstrings(l, b, in) ==
  LET braceOpen  == find(in, "{", 0)
      braceClose == rfind(in, "}")
      bracesOk   == braceOpen # npos /\ braceClose # npos /\ braceClose >= braceOpen
  IN
  IF l = "Named"
  THEN LET headerEnd == IF braceOpen # npos THEN braceOpen
                        ELSE IF b = "STL" THEN Len(in) - 2 ELSE lastIndexOfHashes(in)
           r == IF b = "STL" THEN NS_parseHeader(in, NS_Empty)
                             ELSE NA_parseHeader(in, NA_Empty)
       IN {<<2, headerEnd>>}
          \cup (IF r.braces THEN {<<braceOpen + 1, braceClose>>} ELSE {})
  ELSE LET r == IF b = "STL" THEN DS_parseHeader(in, DS_Empty)
                             ELSE DA_parseHeader(in, DA_Empty)
       IN (IF bracesOk THEN {<<2, braceOpen>>} ELSE {})
          \cup (IF r.error = NoError THEN {<<braceOpen + 1, braceClose>>} ELSE {})

\* one iteration of the parameter loop, entered at i0 < size: the key or
\* token, then the value (CmdLib.h: quoted or not)
LoopSubstrings(l, ins, i0) ==
  LET n  == Len(ins)
      i1 == skipSpace(ins, i0)
      i2 == scanKey(ins, i1)
      i3 == i2 + 1
  IN
  IF i1 >= n THEN {}
  ELSE IF i2 >= n \/ at(ins, i2) = "," THEN {<<i1, i2>>}
  ELSE IF l = "Dev" /\ i3 < n /\ IsQuote(at(ins, i3))
  THEN {<<i1, i2>>, <<i3 + 1, scanQuoted(ins, i3 + 1, at(ins, i3))>>}
  ELSE {<<i1, i2>>, <<i3, scanValue(ins, i3)>>}

(***************************************************************************)
(* parse(input, out, error) as one call: what it returns, the Command and  *)
(* the error string it leaves                                              *)
(***************************************************************************)
ParseFraming(l, b, in) ==
  IF l = "Named" THEN (IF b = "STL" THEN NS_parseFraming(in) ELSE NA_parseFraming(in))
  ELSE (IF b = "STL" THEN DS_parseFraming(in) ELSE DA_parseFraming(in))

ParseHeader(l, b, in, o) ==
  IF l = "Named"
  THEN (IF b = "STL" THEN NS_parseHeader(in, o) ELSE NA_parseHeader(in, o))
  ELSE [braces |-> TRUE] @@
       (IF b = "STL" THEN DS_parseHeader(in, o) ELSE DA_parseHeader(in, o))

ParamStep(l, b, ins, i, o) ==
  IF l = "Named"
  THEN (IF b = "STL" THEN NS_paramStep(ins, i, o) ELSE NA_paramStep(ins, i, o))
  ELSE (IF b = "STL" THEN DS_paramStep(ins, i, o) ELSE DA_paramStep(ins, i, o))

RECURSIVE ParamLoop(_, _, _, _, _)
\* the parameter loop from index i on
ParamLoop(l, b, ins, i, o) ==
  IF i >= Len(ins) THEN [ok |-> TRUE, error |-> NoError, out |-> o]
  ELSE LET r == ParamStep(l, b, ins, i, o)
       IN IF r.error # NoError THEN [ok |-> FALSE, error |-> r.error, out |-> r.out]
          ELSE ParamLoop(l, b, ins, r.p, r.out)

Parse(l, b, in, o) ==
  LET c == Clear(l, b, o)
      e == ParseFraming(l, b, in)
      h == ParseHeader(l, b, in, c)
  IN IF e # NoError THEN [ok |-> FALSE, error |-> e, out |-> c]
     ELSE IF h.error # NoError THEN [ok |-> FALSE, error |-> h.error, out |-> h.out]
     ELSE IF ~h.braces THEN [ok |-> TRUE, error |-> NoError, out |-> h.out]
     ELSE ParamLoop(l, b, h.inside, 0, h.out)

(***************************************************************************)
(* Bounds and the texts the caller passes                                  *)
(***************************************************************************)
MaxHeaderLen == 3
MaxInsideLen == 5
MaxBuildParams == 2

\* every text over the characters A of length at most n
Texts(A, n) == UNION {[1..k -> A] : k \in 0..n}

Bangs  == <<"!", "!">>
Hashes == <<"#", "#">>

FramingInputs ==
  {pre \o body \o suf :
     pre  \in {<<>>, <<"!">>, Bangs, <<"#", "!", "!">>},
     body \in {<<>>, <<"a">>, <<"k", ":", "c", "{", "a", "=", "b", "}">>,
               <<"d", ":", "k", ":", "c", ":", "{", "a", "=", "b", "}">>},
     suf  \in {<<>>, <<"#">>, Hashes, <<"#", "#", "!">>}}

HeaderChars == {"c", ":", " "}

BraceParts ==
  { <<>>, <<"{", "}">>, <<"{", "a", "=", "b", "}">>, <<"{", "a", "=", "b">>,
    <<"a", "=", "b", "}">>, <<"}", "{">>, <<"}", "{", "a", "=", "b", "}">>,
    <<"{", "a", "}">>, <<"{", "=", "b", "}">>, <<"{", "a", "=", "b", "}", "x">>,
    <<"{", "{", "a", "=", "b", "}", "}">> }

HeaderInputs ==
  {Bangs \o h \o bp \o Hashes : h \in Texts(HeaderChars, MaxHeaderLen), bp \in BraceParts}

InsideChars == {"a", "b", "=", ",", " "}

NamedParamInputs ==
  {Bangs \o <<"k", ":", "c", "{">> \o ins \o <<"}">> \o Hashes :
     ins \in Texts(InsideChars, MaxInsideLen)}

\* frames of the shapes the documentation and the tests use, in short names:
\* a flag, a multi-part header, more distinct keys than CMDLIB_MAX_PARAMS,
\* a header with and without the ':' before the brace, text after the '}'
NamedFrames ==
  { Bangs \o <<"A", ":", "R", "{", "f", ",", "l", "=", "5", "}">> \o Hashes,
    Bangs \o <<"M", ":", "A", ":", "R", ":", "S", "{", "z", "=", "1", "}">> \o Hashes,
    Bangs \o <<"C", ":", "P">> \o Hashes,
    Bangs \o <<"c", "{", "a", "=", "1", ",", "b", "=", "2", ",", "d", "=", "3", ",",
               "a", "=", "4", "}">> \o Hashes,
    Bangs \o <<"c", "{", "a", "=", "1", ",", "a", "=", "2", ",", "b", "=", "3", "}">> \o Hashes,
    Bangs \o <<"K", ":", "C", ":", "{", "a", "=", "1", "}">> \o Hashes,
    Bangs \o <<"K", ":", "C", "{", "a", "=", "1", "}">> \o Hashes,
    Bangs \o <<"K", ":", "C", "{", "a", "=", "1", "}", "j", "u", "n", "k">> \o Hashes }

NamedInputs == FramingInputs \cup HeaderInputs \cup NamedParamInputs \cup NamedFrames

MaxDevInsideLen == 4

DevInsideChars == {"a", "=", ",", " ", "'", "\""}

DevHeaderInputs ==
  {Bangs \o d \o h \o bp \o Hashes :
     d \in {<<>>, <<"d", ":">>}, h \in Texts(HeaderChars, MaxHeaderLen), bp \in BraceParts}

DevParamInputs ==
  {Bangs \o <<"d", ":", "k", ":", "c", ":", "{">> \o ins \o <<"}">> \o Hashes :
     ins \in Texts(DevInsideChars, MaxDevInsideLen)}

\* brace contents of the shapes the documentation and the tests use: quoted
\* values holding commas and blanks, an unquoted value, flags, more distinct
\* keys than CMDLIB_MAX_PARAMS
DevContents ==
  { <<"t", "=", "\"", "H", ",", " ", "W", "\"", ",", "l", "=", " ", "1", " ">>,
    <<"t", "=", "'", " ", "H", "\"", ",", "W", " ", "'", ",", "l", "=", "1">>,
    <<"t", "=", " ", "'", "H", "'", ",", "l", "=", "1">>,
    <<"f", ",", "l", "=", "5", ",", "w", " ", "s", "=", "h", " ", "w">>,
    <<"a", "=", "1", ",", "b", "=", "2", ",", "d", "=", "3", ",", "a", "=", "4">>,
    <<"a", ",", "b", ",", "d", ",", "b", "=", "'", ",", "'">> }

DevFrames ==
  {Bangs \o <<"d", ":", "k", ":", "c", ":", "{">> \o ins \o <<"}">> \o Hashes :
     ins \in DevContents}

DevInputs == FramingInputs \cup DevHeaderInputs \cup DevParamInputs \cup DevFrames

Inputs(l) == IF l = "Named" THEN NamedInputs ELSE DevInputs

\* what the caller's Command and error string may hold before the call
StaleText == <<"o", "l", "d">>

Empty(l, b) ==
  IF l = "Named" THEN (IF b = "STL" THEN NS_Empty ELSE NA_Empty)
  ELSE (IF b = "STL" THEN DS_Empty ELSE DA_Empty)

Stale(l, b) ==
  IF l = "Named"
  THEN (IF b = "STL"
        THEN [msgKind |-> StaleText, command |-> StaleText,
              namedParams |-> Put(EmptyMap, StaleText, StaleText)]
        ELSE NA_setParam([NA_Empty EXCEPT !.msgKind = StaleText, !.command = StaleText],
                         StaleText, StaleText).cmd)
  ELSE (IF b = "STL"
        THEN [device |-> StaleText, type |-> StaleText, command |-> StaleText,
              params |-> Put(EmptyMap, StaleText, StaleText)]
        ELSE DA_setParam([DA_Empty EXCEPT !.device = StaleText, !.type = StaleText,
                                          !.command = StaleText],
                         StaleText, StaleText).cmd)

\* the texts a caller building a Command assigns to its fields and parameters
BuildNames  == {<<"c">>, <<" ", "c">>, <<"c", ":", "d">>, <<"c", "{">>}
BuildKeys   == {<<"a">>, <<"b">>, <<"a", "=">>, <<" ", "a">>}
BuildValues == {<<>>, <<"1">>, <<" ", "1">>}
DevBuildNames == {<<"c">>, <<" ", "c">>}

(***************************************************************************)
(* The caller: parse(input, out, error)                                    *)
(***************************************************************************)
Fail(o, e) ==
  /\ pc' = "done"
  /\ out' = o
  /\ error' = e
  /\ ret' = FALSE
  /\ UNCHANGED <<inside, p>>

Succeed(o) ==
  /\ pc' = "done"
  /\ out' = o
  /\ error' = NoError
  /\ ret' = TRUE
  /\ UNCHANGED <<inside, p>>

\* NamedParseBegin without the statement that empties the error string
NamedParseBegin_KeepsError ==
  /\ pc = "call" /\ lib = "Named"
  /\ LET o == IF build = "STL" THEN NS_clear(out) ELSE NA_clear(out)
         e == IF build = "STL" THEN NS_parseFraming(input) ELSE NA_parseFraming(input)
     IN IF e # NoError
        THEN Fail(o, e)
        ELSE /\ out' = o
             /\ pc' = "header"
             /\ UNCHANGED <<error, ret, inside, p>>
  /\ UNCHANGED <<lib, build, mode, src, call, firstSet, input>>

\* part_000 lines 228-232 (STL), 109-113 (Arduino): clear, then the framing checks
NamedParseBegin ==
  /\ pc = "call" /\ lib = "Named"
  /\ LET o == IF build = "STL" THEN NS_clear(out) ELSE NA_clear(out)
         e == IF build = "STL" THEN NS_parseFraming(input) ELSE NA_parseFraming(input)
     IN IF e # NoError
        THEN Fail(o, e)
        ELSE /\ out' = o
             /\ error' = NoError
             /\ pc' = "header"
             /\ UNCHANGED <<ret, inside, p>>
  /\ UNCHANGED <<lib, build, mode, src, call, firstSet, input>>

\* part_000 lines 234-256 (STL), 115-140 (Arduino): header, brace check, loop entry
NamedParseHeader ==
  /\ pc = "header" /\ lib = "Named"
  /\ LET r == IF build = "STL" THEN NS_parseHeader(input, out)
                               ELSE NA_parseHeader(input, out)
     IN IF r.error # NoError THEN Fail(r.out, r.error)
        ELSE IF ~r.braces THEN Succeed(r.out)
        ELSE /\ out' = r.out
             /\ inside' = r.inside
             /\ p' = 0
             /\ pc' = "params"
             /\ UNCHANGED <<error, ret>>
  /\ UNCHANGED <<lib, build, mode, src, call, firstSet, input>>

\* part_000 lines 257-280 (STL), 141-166 (Arduino): one iteration of the loop
NamedParseParam ==
  /\ pc = "params" /\ lib = "Named"
  /\ p < Len(inside)
  /\ LET r == IF build = "STL" THEN NS_paramStep(inside, p, out)
                               ELSE NA_paramStep(inside, p, out)
     IN IF r.error # NoError
        THEN /\ pc' = "done"
             /\ out' = r.out
             /\ error' = r.error
             /\ ret' = FALSE
             /\ p' = r.p
             /\ UNCHANGED inside
        ELSE /\ out' = r.out
             /\ p' = r.p
             /\ UNCHANGED <<error, ret, pc, inside>>
  /\ UNCHANGED <<lib, build, mode, src, call, firstSet, input>>

\* part_000 line 283 (STL), 169 (Arduino): the loop has ended, return true
NamedParseReturn ==
  /\ pc = "params" /\ lib = "Named"
  /\ p >= Len(inside)
  /\ pc' = "done"
  /\ ret' = TRUE
  /\ UNCHANGED <<lib, build, mode, src, call, firstSet, input, out, error, inside, p>>

\* CmdLib.h lines 213-217 (STL), 100-104 (Arduino)
DevParseBegin ==
  /\ pc = "call" /\ lib = "Dev"
  /\ LET o == IF build = "STL" THEN DS_clear(out) ELSE DA_clear(out)
         e == IF build = "STL" THEN DS_parseFraming(input) ELSE DA_parseFraming(input)
     IN IF e # NoError
        THEN Fail(o, e)
        ELSE /\ out' = o
             /\ error' = NoError
             /\ pc' = "header"
             /\ UNCHANGED <<ret, inside, p>>
  /\ UNCHANGED <<lib, build, mode, src, call, firstSet, input>>

\* CmdLib.h lines 219-240 (STL), 106-127 (Arduino)
DevParseHeader ==
  /\ pc = "header" /\ lib = "Dev"
  /\ LET r == IF build = "STL" THEN DS_parseHeader(input, out)
                               ELSE DA_parseHeader(input, out)
     IN IF r.error # NoError THEN Fail(r.out, r.error)
        ELSE /\ out' = r.out
             /\ inside' = r.inside
             /\ p' = 0
             /\ pc' = "params"
             /\ UNCHANGED <<error, ret>>
  /\ UNCHANGED <<lib, build, mode, src, call, firstSet, input>>

\* CmdLib.h lines 241-270 (STL), 128-160 (Arduino): one iteration of the loop
DevParseParam ==
  /\ pc = "params" /\ lib = "Dev"
  /\ p < Len(inside)
  /\ LET r == IF build = "STL" THEN DS_paramStep(inside, p, out)
                               ELSE DA_paramStep(inside, p, out)
     IN /\ out' = r.out
        /\ p' = r.p
  /\ UNCHANGED <<lib, build, mode, src, call, firstSet, input, error, ret, pc, inside>>

\* CmdLib.h line 272 (STL), 162 (Arduino)
DevParseReturn ==
  /\ pc = "params" /\ lib = "Dev"
  /\ p >= Len(inside)
  /\ pc' = "done"
  /\ ret' = TRUE
  /\ UNCHANGED <<lib, build, mode, src, call, firstSet, input, out, error, inside, p>>

(***************************************************************************)
(* The caller: building a Command, clearing it, serializing it and parsing *)
(* the text back (part_004: expect_build_round_trip,                       *)
(* expect_clear_and_overwrite)                                             *)
(***************************************************************************)
\* the keys in the order they were first stored: setParam(k, _) appends k
\* when it has added a parameter (n0 stored before the call, n1 after it)
FirstSet(order, k, n0, n1) ==
  IF n1 > n0 THEN Append(order, k) ELSE order

\* the record of a call on a Command
Called(op, k, v, ok) == [op |-> op, key |-> k, value |-> v, ok |-> ok]

NoCall == Called("none", <<>>, <<>>, TRUE)

Assigned == Called("assign", <<>>, <<>>, TRUE)

\* cmd.msgKind = t
NamedSetMsgKind ==
  /\ pc = "build" /\ lib = "Named"
  /\ \E t \in BuildNames : src' = [src EXCEPT !.msgKind = t]
  /\ call' = Assigned
  /\ UNCHANGED <<lib, build, mode, firstSet, input, out, error, ret, pc, inside, p>>

\* cmd.command = t
NamedSetCommand ==
  /\ pc = "build" /\ lib = "Named"
  /\ \E t \in BuildNames : src' = [src EXCEPT !.command = t]
  /\ call' = Assigned
  /\ UNCHANGED <<lib, build, mode, firstSet, input, out, error, ret, pc, inside, p>>

\* cmd.setParam(k, v); the STL map is unbounded: the model stops adding keys
\* at MaxBuildParams
NamedSetParam ==
  /\ pc = "build" /\ lib = "Named"
  /\ \E k \in BuildKeys, v \in BuildValues :
       /\ build = "STL" =>
            (k \in DOMAIN src.namedParams
               \/ Cardinality(DOMAIN src.namedParams) < MaxBuildParams)
       /\ src' = SetParam(lib, build, src, k, v).cmd
       /\ call' = Called("setParam", k, v, SetParam(lib, build, src, k, v).ok)
       /\ firstSet' = FirstSet(firstSet, k, ParamCount(lib, build, src),
                            ParamCount(lib, build, SetParam(lib, build, src, k, v).cmd))
  /\ UNCHANGED <<lib, build, mode, input, out, error, ret, pc, inside, p>>

\* cmd.device = t
DevSetDevice ==
  /\ pc = "build" /\ lib = "Dev"
  /\ \E t \in DevBuildNames : src' = [src EXCEPT !.device = t]
  /\ call' = Assigned
  /\ UNCHANGED <<lib, build, mode, firstSet, input, out, error, ret, pc, inside, p>>

\* cmd.type = t
DevSetType ==
  /\ pc = "build" /\ lib = "Dev"
  /\ \E t \in DevBuildNames : src' = [src EXCEPT !.type = t]
  /\ call' = Assigned
  /\ UNCHANGED <<lib, build, mode, firstSet, input, out, error, ret, pc, inside, p>>

\* cmd.command = t
DevSetCommand ==
  /\ pc = "build" /\ lib = "Dev"
  /\ \E t \in DevBuildNames : src' = [src EXCEPT !.command = t]
  /\ call' = Assigned
  /\ UNCHANGED <<lib, build, mode, firstSet, input, out, error, ret, pc, inside, p>>

\* cmd.setParam(k, v)
DevSetParam ==
  /\ pc = "build" /\ lib = "Dev"
  /\ \E k \in BuildKeys, v \in BuildValues :
       /\ build = "STL" =>
            (k \in DOMAIN src.params \/ Cardinality(DOMAIN src.params) < MaxBuildParams)
       /\ src' = SetParam(lib, build, src, k, v).cmd
       /\ call' = Called("setParam", k, v, SetParam(lib, build, src, k, v).ok)
       /\ firstSet' = FirstSet(firstSet, k, ParamCount(lib, build, src),
                            ParamCount(lib, build, SetParam(lib, build, src, k, v).cmd))
  /\ UNCHANGED <<lib, build, mode, input, out, error, ret, pc, inside, p>>

\* cmd.clear()
BuildClear ==
  /\ pc = "build"
  /\ src' = Clear(lib, build, src)
  /\ call' = Called("clear", <<>>, <<>>, TRUE)
  /\ firstSet' = <<>>
  /\ UNCHANGED <<lib, build, mode, input, out, error, ret, pc, inside, p>>

\* serialized = cmd.toString(), then parse(serialized, roundTrip, error)
NamedToString ==
  /\ pc = "build" /\ lib = "Named"
  /\ input' \in ToStrings(lib, build, src)
  /\ call' = Called("toString", <<>>, <<>>, TRUE)
  /\ pc' = "call"
  /\ UNCHANGED <<lib, build, mode, src, firstSet, out, error, ret, inside, p>>

DevToString ==
  /\ pc = "build" /\ lib = "Dev"
  /\ input' \in ToStrings(lib, build, src)
  /\ call' = Called("toString", <<>>, <<>>, TRUE)
  /\ pc' = "call"
  /\ UNCHANGED <<lib, build, mode, src, firstSet, out, error, ret, inside, p>>

\* parsed.clear() on the Command a parse has filled, and clear() again
ParsedClear ==
  /\ pc \in {"done", "cleared"}
  /\ out' = Clear(lib, build, out)
  /\ call' = Called("clear", <<>>, <<>>, TRUE)
  /\ pc' = "cleared"
  /\ UNCHANGED <<lib, build, mode, src, firstSet, input, error, ret, inside, p>>

Init ==
  /\ lib \in {"Named", "Dev"}
  /\ build \in {"STL", "ARDUINO"}
  /\ src = Empty(lib, build)
  /\ call = NoCall
  /\ firstSet = <<>>
  /\ ret = "none"
  /\ inside = <<>>
  /\ p = 0
  /\ \/ /\ mode = "parse"
        /\ input \in Inputs(lib)
        /\ \E stale \in BOOLEAN :
             /\ out = IF stale THEN Stale(lib, build) ELSE Empty(lib, build)
             /\ error = IF stale THEN "stale" ELSE NoError
        /\ pc = "call"
     \/ /\ mode = "build"
        /\ input = <<>>
        /\ out = Empty(lib, build)
        /\ error = NoError
        /\ pc = "build"

Next ==
  \/ NamedSetMsgKind
  \/ NamedSetCommand
  \/ NamedSetParam
  \/ NamedToString
  \/ DevSetDevice
  \/ DevSetType
  \/ DevSetCommand
  \/ DevSetParam
  \/ DevToString
  \/ BuildClear
  \/ ParsedClear
  \/ NamedParseBegin
  \/ NamedParseHeader
  \/ NamedParseParam
  \/ NamedParseReturn
  \/ DevParseBegin
  \/ DevParseHeader
  \/ DevParseParam
  \/ DevParseReturn

Spec == Init /\ [][Next]_vars


(***************************************************************************)
(* Vocabulary of the properties: stated on the texts themselves, without   *)
(* the parser's own scanning operators.  Indexes here are 1-based.         *)
(***************************************************************************)
Chars(t) == {t[i] : i \in 1..Len(t)}

Blank(t) == \A i \in 1..Len(t) : t[i] \in {" ", "\t", "\n", "\f", "\r"}

\* no leading and no trailing whitespace
Trimmed(t) == t = <<>> \/ (~Blank(<<t[1]>>) /\ ~Blank(<<t[Len(t)]>>))

\* t without its leading and trailing whitespace
Strip(t) ==
  IF Blank(t) THEN <<>>
  ELSE LET a == CHOOSE i \in 1..Len(t) :
                  ~Blank(<<t[i]>>) /\ \A j \in 1..(i - 1) : Blank(<<t[j]>>)
           b == CHOOSE i \in 1..Len(t) :
                  ~Blank(<<t[i]>>) /\ \A j \in (i + 1)..Len(t) : Blank(<<t[j]>>)
       IN SubSeq(t, a, b)

\* position of the first / last c in t, 0 when t holds no c
First(t, c) ==
  IF c \in Chars(t)
  THEN CHOOSE i \in 1..Len(t) : t[i] = c /\ \A j \in 1..(i - 1) : t[j] # c
  ELSE 0

Last(t, c) ==
  IF c \in Chars(t)
  THEN CHOOSE i \in 1..Len(t) : t[i] = c /\ \A j \in (i + 1)..Len(t) : t[j] # c
  ELSE 0

HasPrefix(t) == Len(t) >= 2 /\ t[1] = "!" /\ t[2] = "!"

HasSuffix(t) == Len(t) >= 2 /\ t[Len(t) - 1] = "#" /\ t[Len(t)] = "#"

Framed(t) == HasPrefix(t) /\ HasSuffix(t)

\* the header segment of a framed text: between "!!" and the first '{' (or the
\* "##" suffix), one trailing ':' removed
HeaderSegment(t) ==
  LET e == IF First(t, "{") # 0 THEN First(t, "{") - 1 ELSE Len(t) - 2
      h == SubSeq(t, 3, e)
  IN IF h # <<>> /\ h[Len(h)] = ":" THEN SubSeq(h, 1, Len(h) - 1) ELSE h

\* the part of a header after its last ':' (all of it when it holds none)
CommandPart(h) == SubSeq(h, Last(h, ":") + 1, Len(h))

\* the header of the framed text resolves to a non-empty command
HeaderResolves(t) == ~Blank(CommandPart(HeaderSegment(t)))

\* the text has a '{' and its last '}' lies after its first '{'
HasBraces(t) == First(t, "{") # 0 /\ Last(t, "}") > First(t, "{")

\* the brace content: between the first '{' and the last '}'
BraceContent(t) == SubSeq(t, First(t, "{") + 1, Last(t, "}") - 1)

RECURSIVE Split(_, _)
\* the pieces of t between the occurrences of c
Split(t, c) ==
  IF First(t, c) = 0 THEN <<t>>
  ELSE <<SubSeq(t, 1, First(t, c) - 1)>> \o Split(SubSeq(t, First(t, c) + 1, Len(t)), c)

\* the comma-separated tokens inside the braces (none without braces)
Tokens(t) == IF HasBraces(t) THEN Split(BraceContent(t), ",") ELSE <<>>

TokenKey(tok)   == Strip(SubSeq(tok, 1, First(tok, "=") - 1))
TokenValue(tok) == Strip(SubSeq(tok, First(tok, "=") + 1, Len(tok)))

\* a token with nothing but whitespace before its '='
EmptyKeyToken(tok) == "=" \in Chars(tok) /\ TokenKey(tok) = <<>>

\* a token that is non-empty after trimming and holds no '='
PositionalToken(tok) == ~Blank(tok) /\ "=" \notin Chars(tok)

Offending(tok) == EmptyKeyToken(tok) \/ PositionalToken(tok)

\* the stored parameters of a part_000 Command, as a set of <<key, value>>
NamedStored(b, c) ==
  IF b = "STL"
  THEN {<<k, c.namedParams[k]>> : k \in DOMAIN c.namedParams}
  ELSE {<<c.namedParams[i].key, c.namedParams[i].value>> : i \in 1..c.namedCount}

\* the stored parameters of a CmdLib.h Command
DevStored(b, c) ==
  IF b = "STL"
  THEN {<<k, c.params[k]>> : k \in DOMAIN c.params}
  ELSE {<<c.params[i].key, c.params[i].value>> : i \in 1..c.paramCount}

Returned == pc = "done"

(***************************************************************************)
(* Properties                                                              *)
(***************************************************************************)

\* C1: part_000 parser, both builds: whenever parse returns false the output
\* Command is empty (msgKind empty, command empty, no parameter stored).
C1_FailureLeavesEmpty ==
  (lib = "Named" /\ Returned /\ ret = FALSE) =>
    /\ out.msgKind = <<>>
    /\ out.command = <<>>
    /\ NamedStored(build, out) = {}

\* C3: both parsers, both builds: a text without the "!!" prefix is rejected
\* with exactly "Missing prefix '!!'", whatever follows (the prefix check goes
\* first); a text with the prefix but without the "##" suffix is rejected with
\* exactly "Missing suffix '##'".
C3_FramingRejection ==
  Returned =>
    /\ ~HasPrefix(input) => (ret = FALSE /\ error = ErrPrefix)
    /\ (HasPrefix(input) /\ ~HasSuffix(input)) => (ret = FALSE /\ error = ErrSuffix)

\* C3 witness: a text lacking both the prefix and the suffix was rejected for
\* its prefix.
C3_Witness ==
  /\ Returned /\ lib = "Dev"
  /\ ~HasPrefix(input) /\ ~HasSuffix(input) /\ Len(input) > 4
  /\ ret = FALSE /\ error = ErrPrefix

\* C4: part_000 parser: a framed text with a '}' that no '{' precedes is
\* rejected with "Malformed braces", never accepted as a brace-less frame.
C4_StrayCloseRejected ==
  (lib = "Named" /\ Returned /\ Framed(input)
     /\ \E i \in 1..Len(input) :
          input[i] = "}" /\ \A j \in 1..(i - 1) : input[j] # "{")
  => (ret = FALSE /\ error = ErrBraces)

\* C5: part_000 parser: a framed text whose first '{' has no '}' after it is
\* rejected with exactly "Malformed braces", also when its header is empty.
C5_UnclosedBraceReported ==
  (lib = "Named" /\ Returned /\ Framed(input)
     /\ First(input, "{") # 0 /\ Last(input, "}") < First(input, "{"))
  => (ret = FALSE /\ error = ErrBraces)

\* C6: part_000 parser: after a successful parse the command is non-empty,
\* has no leading or trailing whitespace and holds neither ':' nor '{'; and
\* when the part of the header segment after its last ':' is empty after
\* trimming, parse returns false with exactly "Empty command".
C6_CommandWellFormed ==
  (lib = "Named" /\ Returned) =>
    /\ ret = TRUE =>
         /\ out.command # <<>>
         /\ Trimmed(out.command)
         /\ ":" \notin Chars(out.command)
         /\ "{" \notin Chars(out.command)
    /\ (Framed(input) /\ ~HeaderResolves(input)) =>
         (ret = FALSE /\ error = ErrEmptyCmd)

\* C6 witness: a successful parse whose command had to be trimmed out of the
\* header part after the last ':'.
C6_Witness ==
  /\ lib = "Named" /\ Returned /\ ret = TRUE
  /\ ":" \in Chars(HeaderSegment(input))
  /\ out.command # CommandPart(HeaderSegment(input))

\* C7: CmdLib.h parser: after every successful parse the command is non-empty.
C7_DevCommandNonEmpty ==
  (lib = "Dev" /\ Returned /\ ret = TRUE) => out.command # <<>>

\* C9: CmdLib.h parser: after every successful parse every stored key is
\* non-empty and no two stored parameters share a key.
\* (Stated on the frames whose command is present, so that a violation does
\* not rest on the empty command of C7.)
C9_DevKeysNonEmptyUnique ==
  (lib = "Dev" /\ Returned /\ ret = TRUE /\ out.command # <<>>) =>
    /\ \A kv \in DevStored(build, out) : kv[1] # <<>>
    /\ \A kv1, kv2 \in DevStored(build, out) : kv1[1] = kv2[1] => kv1 = kv2
    /\ build = "ARDUINO" => Cardinality(DevStored(build, out)) = out.paramCount

\* the Command built by the caller was parsed back equal
RoundTripped ==
  /\ ret = TRUE
  /\ out.command = src.command
  /\ out.msgKind = src.msgKind
  /\ NamedStored(build, out) = NamedStored(build, src)

\* the premises of the round trip as the claim states them
RoundTripStated(c) ==
  /\ c.command # <<>>
  /\ \A kv \in NamedStored(build, c) : kv[1] # <<>>
  /\ \A kv1, kv2 \in NamedStored(build, c) : kv1[1] = kv2[1] => kv1 = kv2
  /\ \A kv \in NamedStored(build, c) : Chars(kv[2]) \cap {",", "=", ":", "{", "}"} = {}

\* what the serialized form cannot carry: surrounding whitespace anywhere,
\* ':' or '{' in the command, '{' in the message kind, '=' or ',' in a key
RoundTripCarried(c) ==
  /\ Trimmed(c.command) /\ Chars(c.command) \cap {":", "{"} = {}
  /\ Trimmed(c.msgKind) /\ "{" \notin Chars(c.msgKind)
  /\ \A kv \in NamedStored(build, c) :
       /\ Trimmed(kv[1]) /\ Chars(kv[1]) \cap {"=", ","} = {}
       /\ Trimmed(kv[2])

\* C2 as stated: every part_000 Command with a non-empty command, unique
\* non-empty keys and values free of , = : { } parses back from its toString
\* equal in command, msgKind and parameters.
C2_RoundTripAsStated ==
  (lib = "Named" /\ mode = "build" /\ Returned /\ RoundTripStated(src)) => RoundTripped

\* C2 amended: the round trip holds when, in addition, no field, key or value
\* has leading or trailing whitespace, the command holds no ':' and no '{',
\* the message kind holds no '{', and no key holds '=' or ','.
C2_RoundTrip ==
  (lib = "Named" /\ mode = "build" /\ Returned
     /\ RoundTripStated(src) /\ RoundTripCarried(src)) => RoundTripped

\* C2 witness: a Command with a message kind and two parameters came back.
C2_Witness ==
  /\ lib = "Named" /\ mode = "build" /\ Returned
  /\ RoundTripStated(src) /\ RoundTripCarried(src)
  /\ src.msgKind # <<>>
  /\ Cardinality(NamedStored(build, src)) = 2
  /\ RoundTripped

\* every parameter stored in `out` has a trimmed, non-empty key free of '=' and ','
StoredKeysClean ==
  \A kv \in NamedStored(build, out) :
    kv[1] # <<>> /\ Trimmed(kv[1]) /\ Chars(kv[1]) \cap {"=", ","} = {}

\* the first offending token of the text, 0 when there is none
FirstOffending(t) ==
  LET ts == Tokens(t) IN
  IF \E i \in 1..Len(ts) : Offending(ts[i])
  THEN CHOOSE i \in 1..Len(ts) : Offending(ts[i]) /\ \A j \in 1..(i - 1) : ~Offending(ts[j])
  ELSE 0

\* C8 as stated: part_000 parser: a token inside the braces with nothing but
\* whitespace before its '=' makes parse return false, with "Empty param key"
\* when it is the first offending token; no stored key is empty, untrimmed or
\* holds '=' or ','.
C8_EmptyKeyAsStated ==
  lib = "Named" =>
    /\ StoredKeysClean
    /\ Returned =>
         LET ts == Tokens(input) IN
         /\ (\E i \in 1..Len(ts) : EmptyKeyToken(ts[i])) => ret = FALSE
         /\ (FirstOffending(input) # 0 /\ EmptyKeyToken(ts[FirstOffending(input)]))
              => error = ErrEmptyKey

\* C8 amended: the error is "Empty param key" when the token is the first
\* offending one and the text is a frame whose header resolves to a non-empty
\* command (otherwise the framing or header error is reported instead).
C8_EmptyKey ==
  lib = "Named" =>
    /\ StoredKeysClean
    /\ Returned =>
         LET ts == Tokens(input) IN
         /\ (\E i \in 1..Len(ts) : EmptyKeyToken(ts[i])) => ret = FALSE
         /\ (Framed(input) /\ HeaderResolves(input)
               /\ FirstOffending(input) # 0 /\ EmptyKeyToken(ts[FirstOffending(input)]))
              => error = ErrEmptyKey

\* C8 witness: an empty-key token after a well-formed one was rejected, the
\* earlier parameter being stored already.
C8_Witness ==
  /\ lib = "Named" /\ Returned /\ Framed(input) /\ HeaderResolves(input)
  /\ FirstOffending(input) > 1
  /\ EmptyKeyToken(Tokens(input)[FirstOffending(input)])
  /\ NamedStored(build, out) # {}
  /\ ret = FALSE /\ error = ErrEmptyKey

\* every stored parameter is the key and value of a key=value token of the text
StoredFromKeyValueTokens ==
  \A kv \in NamedStored(build, out) :
    \E i \in 1..Len(Tokens(input)) :
      LET tok == Tokens(input)[i] IN
      "=" \in Chars(tok) /\ kv = <<TokenKey(tok), TokenValue(tok)>>

C11_FlagsAccepted ==
  (lib = "Named" /\ Returned /\ Framed(input) /\ HeaderResolves(input)
     /\ HasBraces(input)
     /\ \A i \in 1..Len(Tokens(input)) : ~EmptyKeyToken(Tokens(input)[i])
     /\ (build = "STL" \/ Len(Tokens(input)) <= CMDLIB_MAX_PARAMS))
  => LET ts == Tokens(input) IN
     /\ ret = TRUE /\ error = NoError
     /\ \A i \in 1..Len(ts) :
          (PositionalToken(ts[i])
             /\ \A j \in 1..Len(ts) : "=" \in Chars(ts[j]) => TokenKey(ts[j]) # Strip(ts[i]))
          => <<Strip(ts[i]), <<>>>> \in NamedStored(build, out)

\* the part of the brace content the parameter loop has not scanned yet
Rest == SubSeq(inside, p + 1, Len(inside))

\* t begins with a key=value token: its first '=' comes before any ','
KeyValueAhead(t) ==
  First(t, "=") # 0 /\ (First(t, ",") = 0 \/ First(t, "=") < First(t, ","))

AheadKey(t) == Strip(SubSeq(t, 1, First(t, "=") - 1))

\* what follows the first '=' of t
AfterEq(t) == SubSeq(t, First(t, "=") + 1, Len(t))

\* the character right after the '=' is a quote
QuotedAhead(t) == AfterEq(t) # <<>> /\ AfterEq(t)[1] \in {"'", "\""}

\* ... and the same quote character occurs again after it
QuoteClosed(t) == AfterEq(t)[1] \in Chars(Tail(AfterEq(t)))

\* the text between the opening quote and its next occurrence, as it stands
QuotedValue(t) ==
  LET body == Tail(AfterEq(t)) IN SubSeq(body, 1, First(body, AfterEq(t)[1]) - 1)

\* the text up to the next ',' (or the end), without surrounding whitespace
UnquotedValue(t) ==
  LET a == AfterEq(t) IN
  Strip(IF First(a, ",") = 0 THEN a ELSE SubSeq(a, 1, First(a, ",") - 1))

\* setParam(k, ...) on c stores: always in the STL build, in the Arduino build
\* when k is stored already or an entry is free
DevStores(c, k) ==
  \/ build = "STL"
  \/ \E kv \in DevStored(build, c) : kv[1] = k
  \/ c.paramCount < CMDLIB_MAX_PARAMS

\* C12: CmdLib.h parser, both builds: a loop iteration that meets a key=value
\* token whose '=' is directly followed by a quote stores the text up to the
\* next occurrence of that quote character unchanged (commas and whitespace
\* kept, the two quotes left out); one that meets an unquoted value stores
\* the text up to the next ',' without its surrounding whitespace.
C12_QuotedValues ==
  [][(lib = "Dev" /\ pc = "params" /\ p < Len(inside)
        /\ KeyValueAhead(Rest) /\ DevStores(out, AheadKey(Rest)))
     => /\ (QuotedAhead(Rest) /\ QuoteClosed(Rest))
             => <<AheadKey(Rest), QuotedValue(Rest)>> \in DevStored(build, out')
        /\ ~QuotedAhead(Rest)
             => <<AheadKey(Rest), UnquotedValue(Rest)>> \in DevStored(build, out')]_vars

\* C12 witness: a parse has stored a quoted value holding a comma and a blank
\* and, from a later token, an unquoted value that had to be trimmed.
C12_Witness ==
  /\ lib = "Dev" /\ Returned /\ ret = TRUE
  /\ Len(inside) > 5
  /\ <<"l", "=", " ", "1", " ">> = SubSeq(inside, Len(inside) - 4, Len(inside))
  /\ DevStored(build, out) = {<< <<"t">>, <<"H", ",", " ", "W">> >>, << <<"l">>, <<"1">> >>}

\* the colon-separated parts of the header segment of a framed text
HeaderParts(t) == Split(HeaderSegment(t), ":")

\* C13: part_000 parser: when the header has two or more colon-separated
\* parts, the command is the last part and the message kind is the part right
\* before it (the earlier parts being the routing chain, not the message
\* kind), each without surrounding whitespace.
C13_MultiHopHeader ==
  (lib = "Named" /\ Returned /\ ret = TRUE /\ Len(HeaderParts(input)) >= 2)
  => LET parts == HeaderParts(input) IN
     /\ out.command = Strip(parts[Len(parts)])
     /\ out.msgKind = Strip(parts[Len(parts) - 1])

\* the part of a header before its last ':' (nothing when it holds none)
KindPart(h) == SubSeq(h, 1, Last(h, ":") - 1)

\* the text has neither '{' nor '}'
NoBraces(t) == Chars(t) \cap {"{", "}"} = {}

\* the text ends "{}##" and has no other brace
EmptyBraces(t) ==
  /\ Len(t) >= 6
  /\ SubSeq(t, Len(t) - 3, Len(t)) = <<"{", "}", "#", "#">>
  /\ NoBraces(SubSeq(t, 1, Len(t) - 4))

\* C14: part_000 parser: a frame without any brace whose header resolves to
\* a non-empty command parses successfully and stores no parameter; command
\* and msgKind are the trimmed parts of the header segment after and before
\* its last ':'.  A frame ending "{}##" gives the same: the result is a
\* function of the header segment alone, which "!!CMD{}##" and "!!CMD##" share.
C14_BracesOptional ==
  (lib = "Named" /\ Returned /\ Framed(input) /\ HeaderResolves(input)
     /\ (NoBraces(input) \/ EmptyBraces(input)))
  => /\ ret = TRUE /\ error = NoError
     /\ NamedStored(build, out) = {}
     /\ out.command = Strip(CommandPart(HeaderSegment(input)))
     /\ out.msgKind = Strip(KindPart(HeaderSegment(input)))

\* C14 witness: a brace-less frame with a message kind and a command was
\* parsed.
C14_Witness ==
  /\ lib = "Named" /\ mode = "parse" /\ Returned /\ NoBraces(input)
  /\ input = <<"!", "!", "C", ":", "P", "#", "#">>
  /\ ret = TRUE /\ out.msgKind = <<"C">> /\ out.command = <<"P">>
  /\ NamedStored(build, out) = {}

\* the caller has serialized src: `input` is what toString returned
Serialized == mode = "build" /\ pc # "build"

\* the enumerations of a finite set, each element once
Enumerations(S) ==
  {e \in [1..Cardinality(S) -> S] : \A i, j \in 1..Cardinality(S) : i # j => e[i] # e[j]}

RECURSIVE PairsText(_)
\* "k=v" for each <<k, v>> of the sequence, a "," between two of them
PairsText(e) ==
  IF Len(e) = 0 THEN <<>>
  ELSE IF Len(e) = 1 THEN e[1][1] \o <<"=">> \o e[1][2]
  ELSE PairsText(SubSeq(e, 1, Len(e) - 1)) \o <<",">>
       \o e[Len(e)][1] \o <<"=">> \o e[Len(e)][2]

\* the frame text of a message kind, a command and an enumeration of pairs
NamedFrameText(kind, cmd, e) ==
  <<"!", "!">>
  \o (IF kind = <<>> THEN <<>> ELSE kind \o <<":">>)
  \o cmd
  \o (IF Len(e) = 0 THEN <<>> ELSE <<"{">> \o PairsText(e) \o <<"}">>)
  \o <<"#", "#">>

\* C15: part_000 Command, both builds: toString returns "!!", msgKind and
\* ":" when msgKind is non-empty, command, "{" the stored key=value pairs
\* joined by "," "}" when a parameter is stored (nothing otherwise), "##";
\* keys and values are written as they are stored.
C15_ToStringFormat ==
  (lib = "Named" /\ Serialized) =>
    \E e \in Enumerations(NamedStored(build, src)) :
      input = NamedFrameText(src.msgKind, src.command, e)

\* C15 witness: a Command with a message kind, a command and no parameter
\* was serialized without braces.
C15_Witness ==
  /\ lib = "Named" /\ build = "ARDUINO" /\ Serialized
  /\ src.msgKind = <<"c">> /\ src.command = <<"c">> /\ NamedStored(build, src) = {}
  /\ input = <<"!", "!", "c", ":", "c", "#", "#">>

\* the stored parameters of a Command of either header
Stored(l, b, c) == IF l = "Named" THEN NamedStored(b, c) ELSE DevStored(b, c)

\* the text fields of a Command of either header
Fields(l, c) == IF l = "Named" THEN {c.msgKind, c.command} ELSE {c.device, c.type, c.command}

\* the Command the caller's last call was made on
Target == IF pc = "build" THEN src ELSE out

\* keys to ask for, and a default no parameter has as its value
ProbeKeys ==
  BuildKeys \cup {<<>>, StaleText, <<"b">>, <<"d">>, <<"t">>, <<"l">>, <<"f">>, <<"w", " ", "s">>}

ProbeDefault == <<"d", "e", "f">>

\* C16: both Commands, both builds: right after clear(), whatever was
\* assigned, set or parsed before, every text field is empty, no parameter
\* is stored, getParam/getNamed(k, def) returns def, the Arduino count is 0,
\* and another clear() leaves the Command as it is.
C16_ClearResets ==
  call.op = "clear" =>
    /\ Fields(lib, Target) = {<<>>}
    /\ Stored(lib, build, Target) = {}
    /\ \A k \in ProbeKeys : GetParam(lib, build, Target, k, ProbeDefault) = ProbeDefault
    /\ ParamCount(lib, build, Target) = 0
    /\ Clear(lib, build, Target) = Target

\* C16 witness: a CmdLib.h Command that a parse had filled in the Arduino
\* build, two parameters stored and one dropped, has been cleared.
C16_Witness ==
  /\ call.op = "clear" /\ pc = "cleared" /\ lib = "Dev" /\ build = "ARDUINO"
  /\ ret = TRUE
  /\ inside = <<"a", "=", "1", ",", "b", "=", "2", ",", "d", "=", "3", ",", "a", "=", "4">>
  /\ out = DA_Empty

\* C17: both Commands: toString never returns a frame text for a Command
\* whose command is empty (such as a Command just cleared): no text has
\* been serialized from an empty command name.
C17_NoEmptyCommandFrame ==
  Serialized => src.command # <<>>

\* the keys stored in a Command
StoredKeys(l, b, c) == {kv[1] : kv \in Stored(l, b, c)}

\* getParam / getNamed with the probe default
Get(c, k) == GetParam(lib, build, c, k, ProbeDefault)

\* C18: both Commands, both builds, on the Command the caller builds:
\*  - no two stored parameters share a key (as many keys as entries);
\*  - a successful setParam(k, v) makes get(k) return v, the empty v too, and
\*    leaves get(k2) as it was for every other key; on a key already stored
\*    it succeeds and adds no entry;
\*  - an assignment to a field leaves every get as it was, and clear makes
\*    every get return the default.
\* By induction over the calls, get(k) is the value of the latest successful
\* setParam(k, _) since the last clear, and the default when there was none.
C18_ParamStore ==
  [][pc = "build" =>
       /\ Cardinality(StoredKeys(lib, build, src')) = ParamCount(lib, build, src')
       /\ Cardinality(Stored(lib, build, src')) = ParamCount(lib, build, src')
       /\ call'.op = "setParam" =>
            /\ call'.ok => Get(src', call'.key) = call'.value
            /\ ~call'.ok => Get(src', call'.key) = Get(src, call'.key)
            /\ \A k2 \in ProbeKeys \ {call'.key} : Get(src', k2) = Get(src, k2)
            /\ call'.key \in StoredKeys(lib, build, src) =>
                 (call'.ok /\ ParamCount(lib, build, src') = ParamCount(lib, build, src))
       /\ call'.op = "assign" => \A k \in ProbeKeys : Get(src', k) = Get(src, k)
       /\ call'.op = "clear" => \A k \in ProbeKeys : Get(src', k) = ProbeDefault
       /\ call'.op = "toString" => src' = src]_vars

\* C18 witness: in the Arduino build of CmdLib.h, with the array full, the
\* key of the first entry has just been set again, to the empty text, and
\* get returns the empty text for it.
C18_Witness ==
  /\ pc = "build" /\ lib = "Dev" /\ build = "ARDUINO"
  /\ call.op = "setParam" /\ call.ok /\ call.value = <<>>
  /\ src.paramCount = CMDLIB_MAX_PARAMS
  /\ src.params[1].key = call.key
  /\ Get(src, call.key) = <<>>
  /\ Get(src, src.params[2].key) # <<>>

\* C19: Arduino build, both Commands: the count of stored parameters of
\* the Command the caller builds and of the Command parse fills never exceeds
\* CMDLIB_MAX_PARAMS; on a full store, setParam with a key that is not stored
\* returns false and leaves the Command as it was, and setParam with a stored
\* key returns true and get then returns the new value, the count unchanged.
C19_BoundedStore ==
  [][build = "ARDUINO" =>
       /\ ParamCount(lib, build, src) <= CMDLIB_MAX_PARAMS
       /\ ParamCount(lib, build, out) <= CMDLIB_MAX_PARAMS
       /\ ParamCount(lib, build, src') <= CMDLIB_MAX_PARAMS
       /\ ParamCount(lib, build, out') <= CMDLIB_MAX_PARAMS
       /\ (pc = "build" /\ call'.op = "setParam"
             /\ ParamCount(lib, build, src) = CMDLIB_MAX_PARAMS) =>
            IF call'.key \in StoredKeys(lib, build, src)
            THEN /\ call'.ok
                 /\ Get(src', call'.key) = call'.value
                 /\ StoredKeys(lib, build, src') = StoredKeys(lib, build, src)
                 /\ ParamCount(lib, build, src') = CMDLIB_MAX_PARAMS
            ELSE /\ ~call'.ok
                 /\ src' = src]_vars

\* C19 witness: the store is full and the last setParam, with a key that is
\* not stored, has returned false.
C19_Witness ==
  /\ pc = "build" /\ build = "ARDUINO"
  /\ call.op = "setParam" /\ ~call.ok
  /\ ParamCount(lib, build, src) = CMDLIB_MAX_PARAMS
  /\ call.key \notin StoredKeys(lib, build, src)
  /\ Get(src, call.key) = ProbeDefault

\* the key and the value of a token: a token without '=' is a key alone
TokKey(tok) == IF "=" \in Chars(tok) THEN TokenKey(tok) ELSE Strip(tok)
TokVal(tok) == IF "=" \in Chars(tok) THEN TokenValue(tok) ELSE <<>>

\* the positions of the tokens that are not blank
Live(ts) == {i \in 1..Len(ts) : ~Blank(ts[i])}

\* the keys of the tokens before position i
KeysBefore(ts, i) == {TokKey(ts[j]) : j \in {j \in Live(ts) : j < i}}

AllKeys(ts) == {TokKey(ts[i]) : i \in Live(ts)}

\* the first n distinct keys, in the order of the tokens
FirstKeys(ts, n) ==
  {TokKey(ts[i]) : i \in {i \in Live(ts) : Cardinality(KeysBefore(ts, i)) < n}}

\* the value of the last token with key k
LastValue(ts, k) ==
  TokVal(ts[CHOOSE i \in Live(ts) :
              TokKey(ts[i]) = k /\ \A j \in Live(ts) : j > i => TokKey(ts[j]) # k])

\* a frame either parser accepts, with comma-separated tokens that all have a
\* key: for part_000 the header resolves and every token is key=value; for
\* CmdLib.h the header has three parts and no value is quoted
ValidFrame(l, t) ==
  /\ Framed(t) /\ HasBraces(t)
  /\ \A i \in Live(Tokens(t)) : TokKey(Tokens(t)[i]) # <<>>
  /\ IF l = "Named"
     THEN HeaderResolves(t) /\ \A i \in Live(Tokens(t)) : "=" \in Chars(Tokens(t)[i])
     ELSE Len(HeaderParts(t)) >= 3 /\ Chars(BraceContent(t)) \cap {"'", "\""} = {}

\* C20: Arduino build, both parsers: a valid frame with more distinct keys
\* than CMDLIB_MAX_PARAMS is accepted with an empty error; the stored keys
\* are exactly the first CMDLIB_MAX_PARAMS distinct keys in frame order, each
\* with the value of its last token, and the other keys are not stored.
C20_ParseTruncates ==
  (build = "ARDUINO" /\ Returned /\ ValidFrame(lib, input)
     /\ Cardinality(AllKeys(Tokens(input))) > CMDLIB_MAX_PARAMS)
  => LET ts == Tokens(input) IN
     /\ ret = TRUE /\ error = NoError
     /\ ParamCount(lib, build, out) = CMDLIB_MAX_PARAMS
     /\ Stored(lib, build, out)
          = {<<k, LastValue(ts, k)>> : k \in FirstKeys(ts, CMDLIB_MAX_PARAMS)}

\* C20 witness: a CmdLib.h frame with the keys a, b, d and a again was
\* parsed in the Arduino build: a holds its later value, d is not stored.
C20_Witness ==
  /\ build = "ARDUINO" /\ lib = "Dev" /\ Returned /\ ValidFrame(lib, input)
  /\ AllKeys(Tokens(input)) = {<<"a">>, <<"b">>, <<"d">>}
  /\ ret = TRUE /\ error = NoError
  /\ Stored(lib, build, out) = {<< <<"a">>, <<"4">> >>, << <<"b">>, <<"2">> >>}

\* the six messages the documentation of the part_000 parser lists
NamedMessages ==
  {ErrPrefix, ErrSuffix, ErrBraces, ErrEmptyCmd, ErrEmptyKey, ErrPositional}

\* C21: part_000 parser, both builds, whatever the error string held before
\* the call: once parse has begun the error string is empty or one of the six
\* messages, it stays empty until parse returns, and when parse has returned
\* it is empty exactly when parse returned true.
C21_ErrorReporting ==
  (lib = "Named" /\ pc # "call" /\ pc # "build") =>
    /\ error \in NamedMessages \cup {NoError}
    /\ pc \in {"header", "params"} => error = NoError
    /\ Returned => (ret = TRUE <=> error = NoError)
    /\ (Returned /\ ret = FALSE) => error \in NamedMessages

\* C21 witness: the second of three tokens had no key: parse returned false
\* with "Empty param key".
C21_Witness ==
  /\ lib = "Named" /\ mode = "parse" /\ Returned
  /\ ret = FALSE /\ error = ErrEmptyKey
  /\ FirstOffending(input) = 2 /\ Len(Tokens(input)) = 3

\* the stored parameters of src in the order their keys were first set
InFirstSetOrder ==
  [i \in 1..Len(firstSet) |-> <<firstSet[i], GetParam(lib, build, src, firstSet[i], <<>>)>>]

\* C22: part_000 Command, both builds: toString writes the parameters in the
\* order in which their keys were first set (setting a stored key again does
\* not move it), so the serialized text is the frame text of that one order.
C22_InsertionOrder ==
  (lib = "Named" /\ Serialized) =>
    input = NamedFrameText(src.msgKind, src.command, InFirstSetOrder)

\* the two frames of the example, with and without the ':' before the brace
KCColonFrame == <<"!", "!", "K", ":", "C", ":", "{", "a", "=", "1", "}", "#", "#">>
KCFrame      == <<"!", "!", "K", ":", "C", "{", "a", "=", "1", "}", "#", "#">>

C24_BracesMandatory ==
  (lib = "Dev" /\ Returned) =>
    /\ (Framed(input) /\ ~HasBraces(input)) => (ret = FALSE /\ error = ErrBraces)
    /\ error = ErrHeader => (Framed(input) /\ HasBraces(input))
    /\ error = ErrBraces => (Framed(input) /\ ~HasBraces(input))

\* C24 witness: the parameterless frame "!!d:c:c##", three header parts and
\* no braces, was rejected with "Malformed braces".
C24_Witness ==
  /\ lib = "Dev" /\ Returned
  /\ input = <<"!", "!", "d", ":", "c", ":", "c", "#", "#">>
  /\ ret = FALSE /\ error = ErrBraces

\* the store after key -> value: the value of a stored key is replaced; a new
\* key is added, unless the store is capped and holds CMDLIB_MAX_PARAMS keys
RefStore(st, k, v, capped) ==
  IF \E kv \in st : kv[1] = k THEN {kv \in st : kv[1] # k} \cup {<<k, v>>}
  ELSE IF capped /\ Cardinality(st) >= CMDLIB_MAX_PARAMS THEN st
  ELSE st \cup {<<k, v>>}

RECURSIVE RefTokens(_, _, _)
\* the reference: the tokens ts processed left to right from the store st
RefTokens(ts, st, capped) ==
  IF ts = <<>> THEN [ok |-> TRUE, error |-> NoError, stored |-> st]
  ELSE LET tok == Head(ts) IN
       IF Blank(tok) THEN RefTokens(Tail(ts), st, capped)
       ELSE IF "=" \notin Chars(tok)
       THEN [ok |-> FALSE, error |-> ErrPositional, stored |-> st]
       ELSE LET k == Strip(SubSeq(tok, 1, First(tok, "=") - 1))
                v == Strip(SubSeq(tok, First(tok, "=") + 1, Len(tok)))
            IN IF k = <<>>
               THEN [ok |-> FALSE, error |-> ErrEmptyKey, stored |-> st]
               ELSE RefTokens(Tail(ts), RefStore(st, k, v, capped), capped)

\* the reference on the brace content of a text: split on every ','
Reference(t, capped) == RefTokens(Split(BraceContent(t), ","), {}, capped)

\* parse has returned on a frame whose header resolved and whose braces are in
\* place: the parameter loop ran on the brace content
LoopRan ==
  /\ lib = "Named" /\ Returned
  /\ Framed(input) /\ HeaderResolves(input) /\ HasBraces(input)

FlagAhead(t) ==
  IF First(t, ",") = 0 THEN t ELSE SubSeq(t, 1, First(t, ",") - 1)

\* C26 as stated: CmdLib.h parser, both builds: a loop iteration that meets a
\* token without '=' does not make parse fail; when the token is non-empty
\* after trimming it is stored afterwards with the trimmed token as its key
\* and the empty text as its value; when it is empty after trimming the
\* Command is left as it is.
C26_FlagsAsStated ==
  [][(lib = "Dev" /\ pc = "params" /\ p < Len(inside) /\ ~KeyValueAhead(Rest))
     => /\ pc' = "params" /\ error' = NoError
        /\ ~Blank(FlagAhead(Rest))
             => <<Strip(FlagAhead(Rest)), <<>>>> \in DevStored(build, out')
        /\ Blank(FlagAhead(Rest)) => out' = out]_vars

\* C26 amended: the same, the flag being stored in the Arduino build when its
\* key is stored already or fewer than CMDLIB_MAX_PARAMS keys are stored, and
\* dropped otherwise, the Command left as it is.
C26_Flags ==
  [][(lib = "Dev" /\ pc = "params" /\ p < Len(inside) /\ ~KeyValueAhead(Rest))
     => /\ pc' = "params" /\ error' = NoError
        /\ (~Blank(FlagAhead(Rest)) /\ DevStores(out, Strip(FlagAhead(Rest))))
             => /\ <<Strip(FlagAhead(Rest)), <<>>>> \in DevStored(build, out')
                /\ \A kv \in DevStored(build, out') :
                     kv[1] = Strip(FlagAhead(Rest)) \/ kv \in DevStored(build, out)
        /\ (~Blank(FlagAhead(Rest)) /\ ~DevStores(out, Strip(FlagAhead(Rest))))
             => out' = out
        /\ Blank(FlagAhead(Rest)) => out' = out]_vars

\* C26 witness: "a a," was parsed: the flag "a a" is stored with the empty
\* value, the empty token after the comma stored nothing, parse returned true.
C26_Witness ==
  /\ lib = "Dev" /\ Returned /\ ret = TRUE /\ error = NoError
  /\ inside = <<"a", " ", "a", ",">>
  /\ DevStored(build, out) = {<< <<"a", " ", "a">>, <<>> >>}

\* <<from, to>> lies within the text s
InBounds(s, x) == 0 <= x[1] /\ x[1] <= x[2] /\ x[2] <= Len(s)

\* every substring the next step of parse takes lies within its text
SubstringsInBounds ==
  /\ pc = "call" => \A x \in FramingSubstrings(build, input) : InBounds(input, x)
  /\ pc = "header" => \A x \in HeaderSubstrings(lib, build, input) : InBounds(input, x)
  /\ (pc = "params" /\ p < Len(inside))
       => \A x \in LoopSubstrings(lib, inside, p) : InBounds(inside, x)

\* the iteration of the parameter loop the parser is about to run
LoopStep == ParamStep(lib, build, inside, p, out)

\* C27: both parsers, both builds, in every state parse reaches: the scan
\* index lies within the brace content, which is no longer than the input;
\* every substring the next step takes lies within its text; and the loop
\* iteration about to run returns false or advances the index, by at least
\* one character and not beyond the end.  Hence the loop runs at most
\* Len(inside) times and parse returns.
C27_Termination ==
  /\ 0 <= p /\ p <= Len(inside) /\ Len(inside) <= Len(input)
  /\ SubstringsInBounds
  /\ (pc = "params" /\ p < Len(inside))
       => /\ LoopStep.error # NoError \/ LoopStep.p > p
          /\ LoopStep.p <= Len(inside)

\* C27 witness: the loop ran three times on "a=, ,": a key with an empty
\* value, a blank token, the end after the last ','; parse returned with the
\* scan index at the end of the brace content.
C27_Witness ==
  /\ Returned /\ mode = "parse"
  /\ inside = <<"a", "=", ",", " ", ",">>
  /\ p = Len(inside)

\* the text without what stands between its last '}' and its "##" suffix
WithoutTrailer(t) == SubSeq(t, 1, Last(t, "}")) \o Hashes

\* C28: both parsers, both builds: the brace content the parameter loop scans
\* is the text between the first '{' and the last '}' of the input (inner
\* braces included); and on a framed text with braces parse returns the same
\* boolean, leaves the same error and the same Command as on the text
\* without what stands between the last '}' and "##"; parsed with success,
\* "{{a=b}}" stores the key "{a" with the value "b}".
C28_BraceSpan ==
  /\ pc = "params" => (HasBraces(input) /\ inside = BraceContent(input))
  /\ (Returned /\ Framed(input) /\ HasBraces(input))
       => LET r == Parse(lib, build, WithoutTrailer(input), Empty(lib, build))
          IN /\ ret = r.ok
             /\ error = r.error
             /\ out = r.out
             /\ ret = TRUE => inside = BraceContent(input)
  /\ (Returned /\ ret = TRUE /\ BraceContent(input) = <<"{", "a", "=", "b", "}">>)
       => (IF lib = "Named" THEN NamedStored(build, out) ELSE DevStored(build, out))
            = {<< <<"{", "a">>, <<"b", "}">> >>}

\* C28 witness: "!!K:C{a=1}junk##" parsed by the part_000 parser to K, C and
\* a -> 1, as "!!K:C{a=1}##" is.
C28_Witness ==
  /\ lib = "Named" /\ Returned /\ ret = TRUE
  /\ input = Bangs \o <<"K", ":", "C", "{", "a", "=", "1", "}", "j", "u", "n", "k">> \o Hashes
  /\ WithoutTrailer(input) = KCFrame
  /\ out.msgKind = <<"K">> /\ out.command = <<"C">>
  /\ NamedStored(build, out) = {<< <<"a">>, <<"1">> >>}

\* the other build of the same header
OtherBuild(b) == IF b = "STL" THEN "ARDUINO" ELSE "STL"

\* the distinct non-empty keys of the key=value tokens inside the braces
KeyedKeys(t) ==
  {TokenKey(Tokens(t)[i]) : i \in {i \in 1..Len(Tokens(t)) : "=" \in Chars(Tokens(t)[i])}}
    \ {<<>>}

\* C29: part_000 parser: when the brace content of the input holds at most
\* CMDLIB_MAX_PARAMS distinct keys, parse in the build that ran and parse in
\* the other build return the same boolean and leave the same error message,
\* the same msgKind and command and the same key-to-value mapping.
C29_BuildEquivalence ==
  (lib = "Named" /\ Returned /\ Cardinality(KeyedKeys(input)) <= CMDLIB_MAX_PARAMS)
  => LET b == OtherBuild(build)
         r == Parse("Named", b, input, Empty("Named", b))
     IN /\ ret = r.ok
        /\ error = r.error
        /\ out.msgKind = r.out.msgKind
        /\ out.command = r.out.command
        /\ NamedStored(build, out) = NamedStored(b, r.out)

\* C29 witness: the Arduino build parsed "!!c{a=1,a=2,b=3}##", three tokens
\* with CMDLIB_MAX_PARAMS distinct keys, a overwritten in place.
C29_Witness ==
  /\ lib = "Named" /\ build = "ARDUINO" /\ Returned /\ ret = TRUE
  /\ Len(Tokens(input)) = 3
  /\ KeyedKeys(input) = {<<"a">>, <<"b">>}
  /\ Cardinality(KeyedKeys(input)) = CMDLIB_MAX_PARAMS
  /\ NamedStored(build, out) = {<< <<"a">>, <<"2">> >>, << <<"b">>, <<"3">> >>}

\* the four messages of the failure returns of the CmdLib.h parser
DevMessages == {ErrPrefix, ErrSuffix, ErrBraces, ErrHeader}

\* C30: CmdLib.h parser, both builds: the parameter loop runs with an empty
\* error and a framed text with braces and a header of three parts is
\* parsed with success whatever its braces hold; a failure carries one of
\* the four messages of the checks ahead of the loop and leaves device,
\* type and command empty and no parameter stored; and what parse returns
\* and leaves is what it returns and leaves when called with an empty
\* Command, whatever the Command held before the call.
C30_FailureFrame ==
  lib = "Dev" =>
    /\ pc = "params" => (error = NoError /\ LoopStep.error = NoError)
    /\ (Returned /\ Framed(input) /\ HasBraces(input) /\ Len(HeaderParts(input)) >= 3)
         => ret = TRUE
    /\ (Returned /\ ret = FALSE)
         => /\ error \in DevMessages
            /\ Fields(lib, out) = {<<>>}
            /\ DevStored(build, out) = {}
            /\ ParamCount(lib, build, out) = 0
    /\ Returned
         => LET r == Parse(lib, build, input, Empty(lib, build))
            IN /\ ret = r.ok
               /\ error = r.error
               /\ out = r.out

\* C30 witness: a text with a key=value inside its braces and a header of
\* two parts failed on the header and left the Command empty.
C30_Witness ==
  /\ lib = "Dev" /\ Returned /\ ret = FALSE /\ error = ErrHeader
  /\ Framed(input) /\ HasBraces(input)
  /\ BraceContent(input) = <<"a", "=", "b">>
  /\ Len(HeaderParts(input)) = 2
  /\ out = Empty(lib, build)

====
